---- MODULE Spec2Model ----
(***************************************************************************)
(* Batch validation of FAANG organism records                              *)
(* (CompleteOrganismValidator.validate_batch and get_submission_status of  *)
(* app/organism_validation.py, RelationshipValidator of                    *)
(* app/organism_validator_classes.py), as a state machine.                 *)
(*                                                                         *)
(* A message built by an f-string is the sequence of its pieces, so two    *)
(* messages are equal exactly when their pieces are.  A field path is the  *)
(* sequence of its tokens ("/", ".", "[", "]", names and decimal indices); *)
(* an outcome tree is a function from node addresses (sequences of keys,   *)
(* list indices in decimal) to the node's kind and its errors/warnings.    *)
(***************************************************************************)
EXTENDS Integers, Sequences, FiniteSets, TLC

\* ------------------------------------------------------------------ bounds
MaxBatch == 3        \* records in a batch of the relationship family
MaxRefs == 3         \* references declared in a batch, all records together
MaxItems == 2        \* items returned by the external schema validator

\* ------------------------------------------------------- program constants
MaxChildOf == 2      \* FAANGOrganismSample.child_of: max_items=2

Range(s) == {s[k] : k \in 1..Len(s)}

\* --------------------------------------------------------------- messages
NoEntityMsg(parent_id) ==
    <<"Relationships part: no entity '", parent_id, "' found">>
SpeciesMsg(current_species, parent_species) ==
    <<"Relationships part: the specie of the child '", current_species,
      "' doesn't match the specie of the parent '", parent_species, "'">>
MaterialMsg(parent_id) ==
    <<"Relationships part: referenced entity '", parent_id,
      "' does not match condition 'should be ", "organism", "'">>
CircularMsg(parent_id) ==
    <<"Relationships part: parent '", parent_id,
      "' is listing the child as its parent">>
InvalidIdMsg(biosample_id) == <<"Invalid BioSample ID format: ", biosample_id>>
RecommendedMsg == <<"This item is recommended but was not provided">>
DateMsg(units, value) ==
    <<"Date units: ", units, " should be consistent with date value: ", value>>
MissingErrorMsg(field_name) ==
    <<"Field '", field_name,
      "' contains missing value that is not appropriate for this field">>
MissingWarningMsg(field_name) ==
    <<"Field '", field_name,
      "' contains missing value that may not be appropriate for this field">>
LabelMsg(text, label, term) ==
    <<"Provided value '", text, "' doesn't precisely match '", label,
      "' for term '", term, "'">>
BreedMsg(breed_text, organism_text) ==
    <<"Breed '", breed_text, "' doesn't match the animal specie: '",
      organism_text, "'">>
OneOfMsg == <<"should match exactly one schema in oneOf">>

\* ---------------------------------------------------------- outcome trees
\* Decimal list indices, as str(index) writes them and int(part) reads them.
Digits == <<"0", "1", "2", "3", "4">>
IsDigit(part) == part \in Range(Digits)
IntOf(part) == (CHOOSE k \in 1..Len(Digits) : Digits[k] = part) - 1
StrOf(index) == Digits[index + 1]

DictNode == [kind |-> "dict", errors |-> <<>>, warnings |-> <<>>]
ListNode == [kind |-> "list", errors |-> <<>>, warnings |-> <<>>]
Scalar == [kind |-> "scalar", errors |-> <<>>, warnings |-> <<>>]

\* The keys of the dict (or the indices of the list) at address a.
Keys(t, a) ==
    {b[Len(a) + 1] : b \in {c \in DOMAIN t : Len(c) = Len(a) + 1
                                           /\ SubSeq(c, 1, Len(a)) = a}}
ListLen(t, a) == Cardinality(Keys(t, a))

\* _add_error: append unless the node already holds the message.
AddError(t, a, error) ==
    IF a \in DOMAIN t /\ t[a].kind = "dict"
    THEN IF error \in Range(t[a].errors) THEN t
         ELSE [t EXCEPT ![a].errors = Append(@, error)]
    ELSE t

\* _add_warning
AddWarning(t, a, warning) ==
    IF a \in DOMAIN t /\ t[a].kind = "dict"
    THEN IF warning \in Range(t[a].warnings) THEN t
         ELSE [t EXCEPT ![a].warnings = Append(@, warning)]
    ELSE t

\* ------------------------------------------------------------ field paths
\* path[1:] when the path starts with "/", then "/" replaced by ".".
NormalizePath(path) ==
    LET stripped == IF path # <<>> /\ Head(path) = "/" THEN Tail(path) ELSE path
    IN [k \in 1..Len(stripped) |-> IF stripped[k] = "/" THEN "." ELSE stripped[k]]

\* str.split('.'): the parts between the dots (an empty path gives one
\* empty part).
RECURSIVE SplitDots(_)
SplitDots(p) ==
    IF \E k \in 1..Len(p) : p[k] = "."
    THEN LET k == CHOOSE j \in 1..Len(p) :
                      p[j] = "." /\ \A h \in 1..(j - 1) : p[h] # "."
         IN <<SubSeq(p, 1, k - 1)>> \o SplitDots(SubSeq(p, k + 1, Len(p)))
    ELSE <<p>>

\* A part without brackets is one token (or empty).
PartName(tokens) == IF tokens = <<>> THEN "" ELSE tokens[1]
IndexOfToken(part, tok) == CHOOSE k \in 1..Len(part) :
                               part[k] = tok /\ \A h \in 1..(k - 1) : part[h] # tok

\* "name[3]" gives the two parts name, "3"; any other part is kept.
ParsePart(part) ==
    IF "[" \in Range(part) /\ "]" \in Range(part)
    THEN LET open == IndexOfToken(part, "[")
             close == IndexOfToken(part, "]")
         IN <<PartName(SubSeq(part, 1, open - 1)),
              StrOf(IntOf(PartName(SubSeq(part, open + 1, close - 1))))>>
    ELSE <<PartName(part)>>

RECURSIVE ParseParts(_)
ParseParts(split) ==
    IF split = <<>> THEN <<>>
    ELSE ParsePart(Head(split)) \o ParseParts(Tail(split))

PathParts(path) == ParseParts(SplitDots(NormalizePath(path)))

\* item.setdefault('errors', []).extend(errors) on a dict node.
ExtendErrors(t, a, errors) == [t EXCEPT ![a].errors = @ \o errors]

RECURSIVE ExtendItems(_, _, _, _)
ExtendItems(t, a, n, errors) ==
    IF n = 0 THEN t
    ELSE LET item == a \o <<StrOf(n - 1)>>
             rest == ExtendItems(t, a, n - 1, errors)
         IN IF rest[item].kind = "dict" THEN ExtendErrors(rest, item, errors)
            ELSE rest

\* The walk of _apply_errors_to_path from node cur along parts.
RECURSIVE Navigate(_, _, _, _)
Navigate(t, cur, parts, errors) ==
    IF parts = <<>> THEN t
    ELSE LET part == Head(parts)
             next == cur \o <<part>>
         IN IF IsDigit(part)
            THEN IF t[cur].kind = "list" /\ IntOf(part) < ListLen(t, cur)
                 THEN Navigate(t, next, Tail(parts), errors)
                 ELSE t
            ELSE IF t[cur].kind = "dict" /\ part \in Keys(t, cur)
                 THEN IF Tail(parts) = <<>>
                      THEN IF t[next].kind = "dict"
                           THEN ExtendErrors(t, next, errors)
                           ELSE IF t[next].kind = "list"
                                THEN ExtendItems(t, next, ListLen(t, next), errors)
                                ELSE t
                      ELSE Navigate(t, next, Tail(parts), errors)
                 ELSE t

ApplyErrorsToPath(structure, path, errors) ==
    IF path = <<>> THEN structure
    ELSE Navigate(structure, <<>>, PathParts(path), errors)

\* ------------------------------------------------------------ the records
\* A record (org_data) holds the fields the validator reads:
\*   samples_core  TRUE when the record nests material/project in samples_core
\*                 (FALSE: it holds them at the top level)
\*   organism      [text, term]
\*   sex           TRUE when the field is present
\*   birth_date    <<>> (absent) or <<value, units>>
\*   breed         <<>> (absent) or <<text, term>>
\*   child_of      the values of the declared references, in order
\*   sample_name   custom.sample_name.value, "" when custom has none
\*   biosample_id  custom.biosample_id.value, "" when custom has none
NoValue == ""
Restricted == "restricted access"
MissingValues == {"not applicable", "not collected", "not provided", Restricted}

\* ^SAM[AED][AG]?\d+$ and str.startswith('SAM') on the identifiers in use.
Accessions == {"SAMEA1", "SAMEA2"}
MatchesBiosamplePattern(id) == id \in Accessions
StartsWithSAM(id) == id \in Accessions \cup {"SAMPLE-X"}

\* An identifier given as a dict without its 'value' key, as in
\* {'custom': {'sample_name': {}}}; record['custom'][col_name]['value'] then
\* raises KeyError.
Valueless == "{}"
GetRecordNameRaises(record, action) ==
    (IF action = "update" THEN record.biosample_id ELSE record.sample_name) = Valueless
\* _get_record_name (records carry no alias); index counts from 0.
FallbackNames == <<"organism_1", "organism_2", "organism_3", "organism_4">>
GetRecordName(record, index, action) ==
    LET value == IF action = "update" THEN record.biosample_id
                 ELSE record.sample_name
    IN IF value # NoValue THEN value ELSE FallbackNames[index + 1]

\* _get_record_structure / _parse_data / _convert_to_structure for the
\* structure {type: {organism, sex, birth_date, breed, child_of: [..]},
\* core: {material, project}, custom: {sample_name}}; has_child_of tells
\* whether the type template lists child_of.
ChildOfLen(record) == IF record.child_of # <<>> THEN Len(record.child_of) ELSE 1
ChildOfAddrs(n) ==
    {<<"child_of">>} \cup {<<"child_of", StrOf(k)>> : k \in 0..(n - 1)}
        \cup {<<"child_of", StrOf(k), "value">> : k \in 0..(n - 1)}
DictAddrs(n) ==
    {<<>>, <<"organism">>, <<"sex">>, <<"birth_date">>, <<"breed">>,
     <<"samples_core">>, <<"samples_core", "material">>,
     <<"samples_core", "project">>, <<"custom">>, <<"custom", "sample_name">>}
        \cup {<<"child_of", StrOf(k)>> : k \in 0..(n - 1)}
NodeAt(a, n) ==
    IF a \in DictAddrs(n) THEN DictNode
    ELSE IF a = <<"child_of">> THEN ListNode ELSE Scalar
GetRecordStructure(has_child_of, record) ==
    LET n == ChildOfLen(record)
        type == {<<>>, <<"organism">>, <<"organism", "text">>,
                 <<"organism", "term">>, <<"sex">>, <<"sex", "text">>,
                 <<"sex", "term">>, <<"birth_date">>, <<"birth_date", "value">>,
                 <<"birth_date", "units">>, <<"breed">>, <<"breed", "text">>,
                 <<"breed", "term">>}
                    \cup (IF has_child_of THEN ChildOfAddrs(n) ELSE {})
        core == IF record.samples_core
                THEN {<<"samples_core">>, <<"samples_core", "material">>,
                      <<"samples_core", "material", "text">>,
                      <<"samples_core", "material", "term">>,
                      <<"samples_core", "project">>,
                      <<"samples_core", "project", "value">>}
                ELSE {}
        custom == {<<"custom">>, <<"custom", "sample_name">>,
                   <<"custom", "sample_name", "value">>}
    IN [a \in type \cup core \cup custom |-> NodeAt(a, n)]

\* ------------------------------------------------------- the collaborators
\* The ontology lookup service: the docs it holds for a term.
Doc(label, ontology_name) == [label |-> label, ontology_name |-> ontology_name]
OlsDocs(term_id) ==
    CASE term_id = "NCBITaxon:9913" -> <<Doc("Bos taurus", "NCBITAXON")>>
      [] term_id = "NCBITaxon:9796" -> <<Doc("Equus caballus", "NCBITAXON")>>
      [] term_id = "PATO:0000383" -> <<Doc("female", "PATO"), Doc("Female", "EFO")>>
      [] term_id = "LBO:0000156" -> <<Doc("Holstein", "LBO")>>
      [] term_id = "LBO:0000001" -> <<Doc("Holstein", "EFO")>>
      [] term_id = "OBI:0100026" -> <<Doc("organism", "OBI")>>
      [] OTHER -> <<>>

\* str.lower() on the texts and labels in use.
Lower(text) ==
    CASE text = "Bos taurus" -> "bos taurus"
      [] text = "Equus caballus" -> "equus caballus"
      [] text = "Female" -> "female"
      [] text = "Holstein" -> "holstein"
      [] text = "NCBITAXON" -> "ncbitaxon"
      [] text = "NCBITaxon" -> "ncbitaxon"
      [] text = "PATO" -> "pato"
      [] text = "EFO" -> "efo"
      [] text = "LBO" -> "lbo"
      [] text = "OBI" -> "obi"
      [] text = "Organism" -> "organism"
      [] text = "Specimen from organism" -> "specimen from organism"
      [] OTHER -> text

\* A response of the schema validator: status "ok" (2xx with a JSON list),
\* "error" (raise_for_status raises) or "raise" (the request raises).
Item(dataPath, errors) == [dataPath |-> dataPath, errors |-> errors]
Response(status, items) == [status |-> status, items |-> items]

\* A count per call made to a collaborator: <<service, argument, record>>,
\* record 0 for a call made for the batch as a whole.
AddCall(log, key) ==
    IF key \in DOMAIN log THEN [log EXCEPT ![key] = @ + 1]
    ELSE log @@ (key :> 1)

\* ------------------------------------------------- structural validation
\* OntologyValidator.fetch_from_ols of the class-level validator owner
\* ("Organism", "Sex", "Breed"): st = [cache, calls]; the lookup is cached
\* only when it succeeds.
OvFetch(st, services, owner, term_id, k) ==
    IF <<owner, term_id>> \in st.cache THEN st
    ELSE [cache |-> IF term_id \in services.ols_down THEN st.cache
                    ELSE st.cache \cup {<<owner, term_id>>},
          calls |-> AddCall(st.calls, <<"ols", term_id, k>>)]
OvDocs(services, term_id) ==
    IF term_id \in services.ols_down THEN <<>> ELSE OlsDocs(term_id)

Violation(loc, msg) == [loc |-> loc, msg |-> msg]
TermInvalidMsg(owner, term_id) ==
    <<owner, " term invalid: ['Term ", term_id, " not found in OLS']">>
FieldRequired == <<"field required">>

\* The validator of an ontology field: a lookup unless the term is one the
\* field's validator lets through; a violation when the lookup finds nothing.
TermSkips(owner) ==
    IF owner = "Breed" THEN {"not applicable", Restricted} ELSE {Restricted}
TermCheck(acc, services, owner, loc, term_id, k) ==
    IF term_id \in TermSkips(owner) THEN acc
    ELSE LET st == OvFetch([cache |-> acc.cache, calls |-> acc.calls],
                           services, owner, term_id, k)
         IN [errors |-> IF OvDocs(services, term_id) = <<>>
                        THEN Append(acc.errors,
                                    Violation(loc, TermInvalidMsg(owner, term_id)))
                        ELSE acc.errors,
             cache |-> st.cache, calls |-> st.calls]

\* ^[12]\d{3}-(0[1-9]|1[0-2])-(0[1-9]|[12]\d|3[01])|[12]\d{3}-(0[1-9]|1[0-2])|[12]\d{3}$
\* under re.match, on the date values in use.
MatchesDatePattern(value) == value \in {"2020-05-15", "2020-02-30", "2020-02"}

\* FAANGOrganismSample(**org_data): the violations in field order, the
\* forbidden extra field last; acc carries the class-level caches and the
\* call log.
Add(acc, cond, loc, msg) ==
    IF cond THEN [acc EXCEPT !.errors = Append(@, Violation(loc, msg))] ELSE acc
FAANGOrganismSample(record, services, cache, calls, k) ==
    LET a0 == [errors |-> <<>>, cache |-> cache, calls |-> calls]
        a1 == Add(Add(a0, record.samples_core, <<"material">>, FieldRequired),
                  record.samples_core, <<"project">>, FieldRequired)
        a2 == TermCheck(a1, services, "Organism", <<"organism", ".", "term">>,
                        record.organism.term, k)
        a3 == IF record.sex
              THEN TermCheck(a2, services, "Sex", <<"sex", ".", "term">>,
                             "PATO:0000383", k)
              ELSE Add(a2, TRUE, <<"sex">>, FieldRequired)
        a4 == Add(a3, record.birth_date # <<>>
                      /\ record.birth_date[1] \notin MissingValues
                      /\ ~MatchesDatePattern(record.birth_date[1]),
                  <<"birth_date", ".", "value">>,
                  <<"Invalid birth date format: ", record.birth_date[1],
                    ". Must match YYYY-MM-DD, YYYY-MM, or YYYY pattern">>)
        a5 == IF record.breed # <<>>
              THEN TermCheck(a4, services, "Breed", <<"breed", ".", "term">>,
                             record.breed[2], k)
              ELSE a4
        a6 == Add(a5, Len(record.child_of) > MaxChildOf, <<"child_of">>,
                  <<"ensure this value has at most 2 items">>)
        a7 == Add(a6, record.sample_name = NoValue /\ record.biosample_id # NoValue,
                  <<"custom", ".", "sample_name">>, FieldRequired)
    IN Add(a7, record.samples_core, <<"samples_core">>,
           <<"extra fields not permitted">>)

\* ------------------------------------------------------ per-record checks
\* The body of the response, whatever its status.
ValidateWithElixirMutantRaw(response) == response.items
\* _validate_with_elixir: the list the service returns, [] when the request
\* raises or the status is an error.
ValidateWithElixir(response) ==
    IF response.status = "ok" THEN response.items ELSE <<>>

\* [e for e in errors if e != 'should match exactly one schema in oneOf']
RECURSIVE FilterOneOf(_)
FilterOneOf(errors) ==
    IF errors = <<>> THEN <<>>
    ELSE (IF Head(errors) = OneOfMsg THEN <<>> ELSE <<Head(errors)>>)
             \o FilterOneOf(Tail(errors))

\* _apply_elixir_errors
RECURSIVE ApplyElixirErrors(_, _)
ApplyElixirErrors(structure, items) ==
    IF items = <<>> THEN structure
    ELSE LET errors == FilterOneOf(Head(items).errors)
             applied == IF errors # <<>>
                        THEN ApplyErrorsToPath(structure, Head(items).dataPath, errors)
                        ELSE structure
         IN ApplyElixirErrors(applied, Tail(items))

\* _apply_pydantic_errors: one merge per violation, at '.'.join(loc).
RECURSIVE ApplyPydanticErrors(_, _)
ApplyPydanticErrors(structure, violations) ==
    IF violations = <<>> THEN structure
    ELSE ApplyPydanticErrors(
             ApplyErrorsToPath(structure, Head(violations).loc,
                               <<Head(violations).msg>>),
             Tail(violations))

\* field_requirements and ontology_names, read from the organism schema at
\* construction (both empty when the schema could not be loaded).
Requirement(schema_loaded, field_name) ==
    IF ~schema_loaded THEN "none"
    ELSE IF field_name \in {"organism", "sex"} THEN "mandatory"
    ELSE IF field_name \in {"birth_date", "breed"} THEN "recommended"
    ELSE IF field_name = "child_of" THEN "optional" ELSE "none"
ExpectedOntology(schema_loaded, field_name) ==
    IF ~schema_loaded THEN "none"
    ELSE CASE field_name = "organism" -> "ncbitaxon"
           [] field_name = "sex" -> "pato"
           [] field_name = "breed" -> "lbo"
           [] OTHER -> "none"

\* MISSING_VALUES[requirement]
MissingConfig(requirement) ==
    CASE requirement = "mandatory" ->
             [errors |-> {"not applicable", "not collected", "not provided"},
              warnings |-> {Restricted}]
      [] requirement = "recommended" ->
             [errors |-> {}, warnings |-> {"not collected", "not provided"}]
      [] OTHER -> [errors |-> {}, warnings |-> {}]

\* SPECIES_BREED_LINKS
SpeciesBreedLinks == {"NCBITaxon:9913", "NCBITaxon:9796"}

\* The fields of the record that hold a dict, and what the checks read there.
Present(record, field_name) ==
    CASE field_name = "organism" -> TRUE
      [] field_name = "sex" -> record.sex
      [] field_name = "birth_date" -> record.birth_date # <<>>
      [] field_name = "breed" -> record.breed # <<>>
      [] OTHER -> FALSE
\* field_data.get('value') or field_data.get('text')
ValueOrText(record, field_name) ==
    CASE field_name = "organism" -> record.organism.text
      [] field_name = "sex" -> "female"
      [] field_name = "birth_date" -> record.birth_date[1]
      [] field_name = "breed" -> record.breed[1]
TermOf(record, field_name) ==
    CASE field_name = "organism" -> record.organism.term
      [] field_name = "sex" -> "PATO:0000383"
      [] field_name = "breed" -> record.breed[2]
DictFields == <<"organism", "sex", "birth_date", "breed">>

\* _check_recommended_fields
RECURSIVE CheckRecommendedFields(_, _, _, _)
CheckRecommendedFields(t, record, schema_loaded, fields) ==
    IF fields = <<>> THEN t
    ELSE LET f == Head(fields)
             u == IF Requirement(schema_loaded, f) = "recommended"
                     /\ ~Present(record, f) /\ <<f>> \in DOMAIN t
                  THEN AddWarning(t, <<f>>, RecommendedMsg) ELSE t
         IN CheckRecommendedFields(u, record, schema_loaded, Tail(fields))

\* datetime.strptime(date_value, date_format) succeeds
Strptime(date_value, date_format) ==
    <<date_value, date_format>> \in {<<"2020-05-15", "%Y-%m-%d">>,
                                     <<"2020-02", "%Y-%m">>}
\* _is_date_format_valid
IsDateFormatValid(date_value, date_units) ==
    IF date_value \in MissingValues THEN TRUE
    ELSE CASE date_units = "YYYY-MM-DD" -> Strptime(date_value, "%Y-%m-%d")
           [] date_units = "YYYY-MM" -> Strptime(date_value, "%Y-%m")
           [] date_units = "YYYY" -> Strptime(date_value, "%Y")
           [] OTHER -> TRUE
\* _validate_all_dates (birth_date is the only field named as a date)
ValidateAllDates(t, record) ==
    IF record.birth_date # <<>>
       /\ ~IsDateFormatValid(record.birth_date[1], record.birth_date[2])
    THEN AddError(t, <<"birth_date">>,
                  DateMsg(record.birth_date[2], record.birth_date[1]))
    ELSE t

\* _check_missing_values
RECURSIVE CheckMissingValues(_, _, _, _)
CheckMissingValues(t, record, schema_loaded, fields) ==
    IF fields = <<>> THEN t
    ELSE LET f == Head(fields)
             requirement == Requirement(schema_loaded, f)
             config == MissingConfig(requirement)
             value == ValueOrText(record, f)
             u == IF Present(record, f) /\ requirement # "none"
                     /\ <<f>> \in DOMAIN t /\ value # ""
                  THEN IF value \in config.errors
                       THEN AddError(t, <<f>>, MissingErrorMsg(f))
                       ELSE IF value \in config.warnings
                            THEN AddWarning(t, <<f>>, MissingWarningMsg(f))
                            ELSE t
                  ELSE t
         IN CheckMissingValues(u, record, schema_loaded, Tail(fields))

\* The labels check_ontology_field compares the text with.
RECURSIVE Labels(_, _)
Labels(ols_docs, expected_ontology) ==
    IF ols_docs = <<>> THEN <<>>
    ELSE (IF expected_ontology = "none"
             \/ Lower(Head(ols_docs).ontology_name) = Lower(expected_ontology)
          THEN <<Lower(Head(ols_docs).label)>> ELSE <<>>)
             \o Labels(Tail(ols_docs), expected_ontology)

\* _validate_ontology_consistency
RECURSIVE ValidateOntologyConsistency(_, _, _, _, _)
ValidateOntologyConsistency(t, record, schema_loaded, ontology_cache, fields) ==
    IF fields = <<>> THEN t
    ELSE LET f == Head(fields)
             has_term == Present(record, f) /\ f # "birth_date"
             labels == Labels(ontology_cache[TermOf(record, f)],
                              ExpectedOntology(schema_loaded, f))
             u == IF has_term /\ <<f>> \in DOMAIN t
                     /\ TermOf(record, f) \in DOMAIN ontology_cache
                     /\ labels # <<>>
                     /\ Lower(ValueOrText(record, f)) \notin Range(labels)
                  THEN AddWarning(t, <<f>>,
                                  LabelMsg(ValueOrText(record, f), labels[1],
                                           TermOf(record, f)))
                  ELSE t
         IN ValidateOntologyConsistency(u, record, schema_loaded, ontology_cache,
                                        Tail(fields))

\* _validate_breed_species: whether the validator is asked, and the outcome.
BreedAsked(record) ==
    /\ record.breed # <<>>
    /\ record.organism.term \in SpeciesBreedLinks
    /\ record.breed[2] # ""
    /\ record.breed[2] \notin {"not applicable", Restricted}
ValidateBreedSpecies(t, record, breed_response) ==
    IF BreedAsked(record) /\ ValidateWithElixir(breed_response) # <<>>
    THEN AddError(t, <<"organism">>,
                  BreedMsg(record.breed[1], record.organism.text))
    ELSE t

\* The checks that follow a successful structural validation, in order
\* (no custom field of the records holds a term, so _validate_custom_fields
\* adds nothing).
AdditionalValidations(t, record, schema_loaded, ontology_cache, breed_response) ==
    LET t1 == CheckRecommendedFields(t, record, schema_loaded, DictFields)
        t2 == ValidateAllDates(t1, record)
        t3 == CheckMissingValues(t2, record, schema_loaded, DictFields)
        t4 == ValidateOntologyConsistency(t3, record, schema_loaded,
                                          ontology_cache, DictFields)
    IN ValidateBreedSpecies(t4, record, breed_response)

\* _validate_single_organism for record k: the tree, the class-level caches
\* and the call log it leaves.
ValidateSingleOrganism(record, k, t, services, ontology_cache, cache, calls) ==
    LET asked == services.schema_loaded
        c1 == IF asked THEN AddCall(calls, <<"elixir", "record", k>>) ELSE calls
        t1 == IF asked
              THEN ApplyElixirErrors(t, ValidateWithElixir(services.elixir[k]))
              ELSE t
        model == FAANGOrganismSample(record, services, cache, c1, k)
    IN IF model.errors = <<>>
       THEN [tree |-> AdditionalValidations(t1, record, services.schema_loaded,
                                            ontology_cache, services.breed[k]),
             cache |-> model.cache,
             calls |-> IF BreedAsked(record)
                       THEN AddCall(model.calls, <<"elixir", record.breed[2], k>>)
                       ELSE model.calls]
       ELSE [tree |-> ApplyPydanticErrors(t1, model.errors),
             cache |-> model.cache, calls |-> model.calls]

\* --------------------------------------------------------- the batch steps
\* _verify_biosample_ids
RECURSIVE VerifyBiosampleIds(_)
VerifyBiosampleIds(orgs) ==
    IF orgs = <<>> THEN <<>>
    ELSE (IF MatchesBiosamplePattern(Head(orgs).biosample_id) THEN <<>>
          ELSE <<InvalidIdMsg(Head(orgs).biosample_id)>>)
             \o VerifyBiosampleIds(Tail(orgs))

\* The document validate_batch returns when an identifier is malformed:
\* {'organism': [{'errors': biosample_errors, 'submission_status': 'Fix issues'}]}
EarlyDocument(biosample_errors) ==
    << (<<>> :> [kind |-> "dict", errors |-> biosample_errors, warnings |-> <<>>])
          @@ (<<"submission_status">> :> Scalar) >>

\* _collect_all_ontology_ids
TermsOf(record) ==
    ({record.organism.term}
        \cup (IF record.sex THEN {"PATO:0000383"} ELSE {})
        \cup (IF record.breed # <<>> THEN {record.breed[2]} ELSE {})
        \cup {"OBI:0100026"})
      \ MissingValues
CollectAllOntologyIds(orgs) == UNION {TermsOf(orgs[k]) : k \in 1..Len(orgs)}

\* _fetch_all_terms / _fetch_term: one request per term not yet cached; the
\* docs are stored when the status is 200.
\* _fetch_all_terms keeping only what this call fetched.
FetchAllTermsMutantRefresh(ontology_cache, services, ids) ==
    LET got == (ids \ DOMAIN ontology_cache) \ services.ols_down
    IN [term_id \in got |-> OlsDocs(term_id)]
FetchAllTerms(ontology_cache, services, ids) ==
    LET asked == ids \ DOMAIN ontology_cache
        got == asked \ services.ols_down
    IN [term_id \in DOMAIN ontology_cache \cup got |->
            IF term_id \in DOMAIN ontology_cache THEN ontology_cache[term_id]
            ELSE OlsDocs(term_id)]
RECURSIVE LogAll(_, _, _)
LogAll(log, service, args) ==
    IF args = {} THEN log
    ELSE LET arg == CHOOSE x \in args : TRUE
         IN LogAll(AddCall(log, <<service, arg, 0>>), service, args \ {arg})

\* -------------------------------------------------------- relationships
\* ALLOWED_RELATIONSHIPS['organism']
AllowedRelationships == {"organism"}
\* str.replace(' ', '_') on the material texts in use
ReplaceSpaces(text) ==
    IF text = "specimen from organism" THEN "specimen_from_organism" ELSE text

\* organism_map: the names, and for each the last record that bears it.
RecordNames(orgs, action) ==
    {GetRecordName(orgs[k], k - 1, action) : k \in 1..Len(orgs)}
LastIndex(orgs, action, name) ==
    CHOOSE k \in 1..Len(orgs) :
        /\ GetRecordName(orgs[k], k - 1, action) = name
        /\ \A j \in (k + 1)..Len(orgs) : GetRecordName(orgs[j], j - 1, action) # name
Mapped(orgs, action) ==
    {LastIndex(orgs, action, name) : name \in RecordNames(orgs, action)}

\* biosample_ids_to_fetch
BiosampleIdsToFetch(orgs, action) ==
    {parent_id \in UNION {Range(orgs[k].child_of) : k \in Mapped(orgs, action)} :
        StartsWithSAM(parent_id) /\ parent_id \notin RecordNames(orgs, action)}

\* _fetch_biosample_data_sync: a cache entry per identifier fetched with
\* status 200.
FetchBiosampleData(biosamples_cache, services, ids) ==
    LET got == {id \in ids \ DOMAIN biosamples_cache :
                   services.biosamples[id].status = "ok"}
    IN [id \in DOMAIN biosamples_cache \cup got |->
            IF id \in DOMAIN biosamples_cache THEN biosamples_cache[id]
            ELSE [organism |-> services.biosamples[id].organism,
                  material |-> services.biosamples[id].material]]

\* A check that flags every parent that has a parent of its own.
CheckCircularMutantAnyParent(t, node, parent_child_of, name, parent_id) ==
    IF parent_child_of # <<>> THEN AddError(t, node, CircularMsg(parent_id)) ELSE t
\* for grandparent in parent_child_of: the error for each one that names
\* the child.
RECURSIVE CheckCircular(_, _, _, _, _)
CheckCircular(t, node, parent_child_of, name, parent_id) ==
    IF parent_child_of = <<>> THEN t
    ELSE CheckCircular(IF Head(parent_child_of) = name
                       THEN AddError(t, node, CircularMsg(parent_id)) ELSE t,
                       node, Tail(parent_child_of), name, parent_id)

\* The body of the loop over child_of for the reference at position i
\* (from 1) of the record org mapped under name.
CheckReference(t, orgs, action, biosamples_cache, name, org, i) ==
    LET parent_id == org.child_of[i]
        n == Len(org.child_of)
        node == <<"child_of", StrOf(i - 1)>>
        t0 == IF <<"child_of">> \in DOMAIN t THEN t
              ELSE t @@ [a \in ChildOfAddrs(n) |-> NodeAt(a, n)]
        local == parent_id \in RecordNames(orgs, action)
        parent_org == orgs[LastIndex(orgs, action, parent_id)]
        parent_species == IF local THEN parent_org.organism.text
                          ELSE biosamples_cache[parent_id].organism
        parent_material == IF local THEN "organism"
                           ELSE ReplaceSpaces(Lower(biosamples_cache[parent_id].material))
        current_species == org.organism.text
        t1 == IF current_species # "" /\ parent_species # ""
                 /\ current_species # parent_species
              THEN AddError(t0, node, SpeciesMsg(current_species, parent_species))
              ELSE t0
        t2 == IF parent_material # "" /\ parent_material \notin AllowedRelationships
              THEN AddError(t1, node, MaterialMsg(parent_id))
              ELSE t1
    IN IF parent_id = Restricted THEN t
       ELSE IF ~local /\ parent_id \notin DOMAIN biosamples_cache
            THEN AddError(t0, node, NoEntityMsg(parent_id))
            ELSE IF local
                 THEN CheckCircular(t2, node, parent_org.child_of, name, parent_id)
                 ELSE t2

\* A loop that ends at the first "restricted access" reference.
RECURSIVE CheckReferencesMutantBreak(_, _, _, _, _, _, _)
CheckReferencesMutantBreak(t, orgs, action, biosamples_cache, name, org, i) ==
    IF i > Len(org.child_of) \/ org.child_of[i] = Restricted THEN t
    ELSE CheckReferencesMutantBreak(
             CheckReference(t, orgs, action, biosamples_cache, name, org, i),
             orgs, action, biosamples_cache, name, org, i + 1)
\* The loop over child_of.
RECURSIVE CheckReferences(_, _, _, _, _, _, _)
CheckReferences(t, orgs, action, biosamples_cache, name, org, i) ==
    IF i > Len(org.child_of) THEN t
    ELSE CheckReferences(
             CheckReference(t, orgs, action, biosamples_cache, name, org, i),
             orgs, action, biosamples_cache, name, org, i + 1)

\* _validate_relationships_batch: the records of the document after the
\* pass (only the record the map holds under a name is checked).
ValidateRelationshipsBatch(orgs, validation_records, action, biosamples_cache) ==
    [k \in 1..Len(orgs) |->
        IF k \in Mapped(orgs, action)
        THEN CheckReferences(validation_records[k], orgs, action, biosamples_cache,
                             GetRecordName(orgs[k], k - 1, action), orgs[k], 1)
        ELSE validation_records[k]]

\* ------------------------------------- RelationshipValidator (the class)
\* get_organism_identifier (records carry no alias)
GetOrganismIdentifier(organism, action) ==
    LET value == IF action = "update" THEN organism.biosample_id
                 ELSE organism.sample_name
    IN IF value # NoValue THEN value ELSE "unknown"
Identifiers(orgs, action) ==
    {GetOrganismIdentifier(orgs[k], action) : k \in 1..Len(orgs)}
\* organism_map[name]: the last record that bears the name
LastBearer(orgs, action, name) ==
    CHOOSE k \in 1..Len(orgs) :
        /\ GetOrganismIdentifier(orgs[k], action) = name
        /\ \A j \in (k + 1)..Len(orgs) : GetOrganismIdentifier(orgs[j], action) # name
\* biosample_ids: every referenced value that starts with 'SAM'
BiosampleIds(orgs) ==
    {parent_id \in UNION {Range(orgs[k].child_of) : k \in 1..Len(orgs)} :
        StartsWithSAM(parent_id)}

\* result.errors.append(...) for each grandparent that names the child.
RECURSIVE AppendCircular(_, _, _, _)
AppendCircular(errors, parent_relationships, name, parent_id) ==
    IF parent_relationships = <<>> THEN errors
    ELSE AppendCircular(IF Head(parent_relationships) = name
                        THEN Append(errors, CircularMsg(parent_id)) ELSE errors,
                        Tail(parent_relationships), name, parent_id)

\* The body of the loop over child_of: result.errors after parent_ref.
CheckParentRef(errors, orgs, action, biosamples_cache, name, org, parent_id) ==
    LET local == parent_id \in Identifiers(orgs, action)
        parent_data == orgs[LastBearer(orgs, action, parent_id)]
        parent_species == IF local THEN parent_data.organism.text
                          ELSE biosamples_cache[parent_id].organism
        parent_material == IF local THEN "organism"
                           ELSE Lower(biosamples_cache[parent_id].material)
        current_species == org.organism.text
        e1 == IF current_species # "" /\ parent_species # ""
                 /\ current_species # parent_species
              THEN Append(errors, SpeciesMsg(current_species, parent_species))
              ELSE errors
        e2 == IF parent_material # "" /\ parent_material \notin AllowedRelationships
              THEN Append(e1, MaterialMsg(parent_id))
              ELSE e1
    IN IF parent_id = Restricted THEN errors
       ELSE IF ~local /\ parent_id \notin DOMAIN biosamples_cache
            THEN Append(errors, NoEntityMsg(parent_id))
            ELSE IF local
                 THEN AppendCircular(e2, parent_data.child_of, name, parent_id)
                 ELSE e2

RECURSIVE CheckParentRefs(_, _, _, _, _, _, _)
CheckParentRefs(errors, orgs, action, biosamples_cache, name, org, i) ==
    IF i > Len(org.child_of) THEN errors
    ELSE CheckParentRefs(
             CheckParentRef(errors, orgs, action, biosamples_cache, name, org,
                            org.child_of[i]),
             orgs, action, biosamples_cache, name, org, i + 1)

\* validate_relationships: results after the first k records, a
\* ValidationResult (field_path organism.<name>.child_of, its errors) per
\* name whose record has findings.
RECURSIVE ValidateRelationships(_, _, _, _)
ValidateRelationships(orgs, action, biosamples_cache, k) ==
    IF k = 0 THEN <<>>
    ELSE LET before == ValidateRelationships(orgs, action, biosamples_cache, k - 1)
             name == GetOrganismIdentifier(orgs[k], action)
             errors == CheckParentRefs(<<>>, orgs, action, biosamples_cache, name,
                                       orgs[k], 1)
             result == [field_path |-> <<"organism.", name, ".child_of">>,
                        errors |-> errors]
         IN IF errors = <<>> THEN before
            ELSE [n \in DOMAIN before \cup {name} |->
                     IF n = name THEN result ELSE before[n]]

\* ------------------------------------------------------ submission status
NestedKeys == {"samples_core", "custom", "experiments_core",
               "dna-binding_proteins", "input_dna", "teleostei_embryo",
               "teleostei_post-hatching"}
\* has_issues on the dict at address a of a record of the document
RECURSIVE HasIssues(_, _)
HasIssues(t, a) ==
    \E key \in Keys(t, a) :
        LET v == a \o <<key>>
        IN IF key \in NestedKeys THEN HasIssues(t, v)
           ELSE IF t[v].kind = "list"
                THEN \E idx \in Keys(t, v) :
                         /\ t[v \o <<idx>>].kind = "dict"
                         /\ t[v \o <<idx>>].errors # <<>>
                ELSE IF t[v].kind = "dict" THEN t[v].errors # <<>> ELSE FALSE

\* get_submission_status
GetSubmissionStatus(records) ==
    IF \E k \in 1..Len(records) : HasIssues(records[k], <<>>)
    THEN "Fix issues" ELSE "Ready for submission"

\* --------------------------------------------- components called on their own
\* OntologyValidator.validate_with_elixir: one result per item of a 200
\* answer that keeps an error once the oneOf message is filtered out; []
\* for any other status and when the request raises.
OvValidateWithElixir(response) ==
    IF response.status = "ok"
    THEN LET kept == SelectSeq(response.items,
                               LAMBDA item : FilterOneOf(item.errors) # <<>>)
         IN [j \in 1..Len(kept) |->
                Item(kept[j].dataPath, FilterOneOf(kept[j].errors))]
    ELSE <<>>

\* The schema the breed check builds for an organism term, and the schema
\* that is put in the request: OntologyValidator.validate_with_elixir adds
\* the draft-07 marker to a copy when the schema has none,
\* CompleteOrganismValidator._validate_with_elixir sends the schema it got.
Draft07 == "http://json-schema.org/draft-07/schema#"
BreedSchema(organism_term) ==
    [type |-> "string", graph_restriction |-> organism_term]
OvSubmittedSchema(schema) ==
    IF "$schema" \in DOMAIN schema THEN schema
    ELSE schema @@ ("$schema" :> Draft07)
SubmittedSchema(schema) == schema

NoBreedLinksMsg(organism_term) ==
    <<"Organism '", organism_term, "' has no defined breed links.">>
BreedMismatchMsg == <<"Breed doesn't match the animal species">>
\* BreedSpeciesValidator.validate_breed_for_species, as written in module
\* (breed_species_validator or organism_validator_classes): the errors it
\* returns and whether it calls the schema validator.
ValidateBreedForSpecies(module, organism_term, breed_term, response) ==
    LET asked == /\ organism_term \in SpeciesBreedLinks
                 /\ breed_term \notin {"not applicable", Restricted}
    IN [asked |-> asked,
        errors |-> IF organism_term \notin SpeciesBreedLinks
                   THEN (IF module = "organism_validator_classes"
                         THEN <<NoBreedLinksMsg(organism_term)>> ELSE <<>>)
                   ELSE IF asked /\ OvValidateWithElixir(response) # <<>>
                        THEN <<BreedMismatchMsg>> ELSE <<>>]

TermNotFoundMsg(term) == <<"Term ", term, " not found in OLS">>
\* OntologyValidator.validate_ontology_term(term, ontology_name, _, text) when
\* the lookup service answers ols_data (text = "" stands for no text): the
\* ValidationResult and whether the lookup was made.
ValidateOntologyTerm(term, ontology_name, text, ols_data) ==
    LET of_ontology == Labels(ols_data, ontology_name)
        ols_labels == IF of_ontology # <<>> THEN of_ontology
                      ELSE Labels(ols_data, "none")
    IN IF term = Restricted
       THEN [errors |-> <<>>, warnings |-> <<>>, asked |-> FALSE]
       ELSE IF ols_data = <<>>
            THEN [errors |-> <<TermNotFoundMsg(term)>>, warnings |-> <<>>,
                  asked |-> TRUE]
            ELSE [errors |-> <<>>,
                  warnings |-> IF text # "" /\ Lower(text) \notin Range(ols_labels)
                               THEN <<LabelMsg(text, ols_labels[1], term)>>
                               ELSE <<>>,
                  asked |-> TRUE]

\* validate_faang_organism_sample(data): samples_core is popped from data and
\* its fields merged into it, then the model is built; data as the call
\* leaves it, the violations raised, the class-level caches and the call log.
ValidateFaangOrganismSample(data, services, cache, calls) ==
    LET merged == [data EXCEPT !.samples_core = FALSE]
        model == FAANGOrganismSample(merged, services, cache, calls, 1)
    IN [data |-> merged, errors |-> model.errors, cache |-> model.cache,
        calls |-> model.calls]

\* ---------------------------------------------------- the organoid batch
\* PydanticValidator of organoid_validation.py. An organoid is held as a
\* record whose child_of is its derived_from: <<value>>, or <<>> when the
\* required field is missing (FAANGOrganoidSample then fails).
OrganoidFallbackNames == <<"organoid_0", "organoid_1", "organoid_2">>
OrganoidSampleName(data, i) ==
    IF data.sample_name # NoValue THEN data.sample_name ELSE OrganoidFallbackNames[i + 1]
ParentNotFoundMsg(parent_id) ==
    <<"Parent sample '", parent_id, "' not found in current batch">>
\* validate_organoid_sample gives a model and no error: the model is built
\* and the schema validator reports nothing.
OrganoidIsValid(data, elixir_errors) == data.child_of # <<>> /\ ~elixir_errors
\* The indices (from 1) of the organoids that pass, in order.
RECURSIVE ValidIndices(_, _, _)
ValidIndices(organoids, elixir_errors, i) ==
    IF i > Len(organoids) THEN <<>>
    ELSE (IF OrganoidIsValid(organoids[i], elixir_errors[i]) THEN <<i>> ELSE <<>>)
             \o ValidIndices(organoids, elixir_errors, i + 1)
\* PydanticValidator.validate_relationships: models are the models of the
\* valid organoids (by index into raw_data), raw_data all the input records;
\* zip pairs the j-th model with the j-th input record. The result maps a
\* sample name to its errors.
OrganoidSampleMap(models, raw_data) ==
    LET n == IF Len(models) < Len(raw_data) THEN Len(models) ELSE Len(raw_data)
        name(j) == OrganoidSampleName(raw_data[j], j - 1)
        last(s) == CHOOSE j \in 1..n : name(j) = s /\ \A h \in (j + 1)..n : name(h) # s
    IN [s \in {name(j) : j \in 1..n} |-> models[last(s)]]
OrganoidValidateRelationships(models, raw_data) ==
    LET sample_map == OrganoidSampleMap(models, raw_data)
        parent_id(s) == raw_data[sample_map[s]].child_of[1]
        flagged == {s \in DOMAIN sample_map :
                       /\ parent_id(s) # Restricted
                       /\ parent_id(s) \notin DOMAIN sample_map
                       /\ ~StartsWithSAM(parent_id(s))}
    IN [s \in flagged |-> <<ParentNotFoundMsg(parent_id(s))>>]
\* validate_with_pydantic: the valid organoids, each with the relationship
\* errors attached to it (the first valid organoid of that sample name).
ValidateWithPydantic(organoids, elixir_errors) ==
    LET valid == ValidIndices(organoids, elixir_errors, 1)
        name(j) == OrganoidSampleName(organoids[valid[j]], valid[j] - 1)
        relationship_errors ==
            IF valid # <<>> THEN OrganoidValidateRelationships(valid, organoids)
            ELSE <<>>
        first(s) == CHOOSE j \in 1..Len(valid) :
                        name(j) = s /\ \A h \in 1..(j - 1) : name(h) # s
    IN [j \in 1..Len(valid) |->
           [index |-> valid[j] - 1, sample_name |-> name(j),
            relationship_errors |->
                IF name(j) \in DOMAIN relationship_errors /\ first(name(j)) = j
                THEN relationship_errors[name(j)] ELSE <<>>]]

\* ------------------------------------------------- the concurrent fetches
\* _fetch_all_terms creates one task per id that is not in the cache;
\* _fetch_term stores the docs under its own term_id.
TasksCreated(ontology_cache, ids) == ids \ DOMAIN ontology_cache
\* _fetch_term keeping nothing but the entry it stores.
StoreTermMutantClobber(ontology_cache, term_id) == (term_id :> OlsDocs(term_id))
StoreTerm(ontology_cache, term_id) ==
    [t \in DOMAIN ontology_cache \cup {term_id} |->
        IF t = term_id THEN OlsDocs(term_id) ELSE ontology_cache[t]]

\* ------------------------------------------------------------ the inputs
\* The records, structures and service answers the validator is run on.
Record(samples_core, organism, sex, birth_date, breed, child_of, sample_name, biosample_id) ==
    [samples_core |-> samples_core, organism |-> organism, sex |-> sex,
     birth_date |-> birth_date, breed |-> breed, child_of |-> child_of,
     sample_name |-> sample_name, biosample_id |-> biosample_id]
TaxonOf(species) ==
    IF species = "Equus caballus" THEN "NCBITaxon:9796" ELSE "NCBITaxon:9913"
Plain(name, species, sex, child_of) ==
    Record(FALSE, [text |-> species, term |-> TaxonOf(species)], sex, <<>>, <<>>,
           child_of, name, NoValue)

Names == <<"A", "B", "C", "D">>
RefLists(targets, budget) == UNION {[1..m -> targets] : m \in 0..budget}
\* The reference lists of n records that hold at most budget references together.
RECURSIVE ChildOfLists(_, _, _)
ChildOfLists(n, targets, budget) ==
    IF n = 0 THEN {<<>>}
    ELSE UNION {{<<refs>> \o rest :
                    rest \in ChildOfLists(n - 1, targets, budget - Len(refs))} :
                refs \in RefLists(targets, budget)}
\* The assignments of names to n records, the first new name being "A", the
\* next "B", and so on (two records may bear the same name).
RECURSIVE NameLists(_)
NameLists(n) ==
    IF n = 0 THEN {<<>>}
    ELSE UNION {{Append(ns, Names[j]) : j \in 1..(Cardinality(Range(ns)) + 1)} :
                ns \in NameLists(n - 1)}

Input(action, organisms, has_child_of, schema_loaded, ols_down) ==
    [entry |-> "validate_batch", action |-> action, organisms |-> organisms,
     has_child_of |-> has_child_of, schema_loaded |-> schema_loaded,
     ols_down |-> ols_down]

\* Batches of same-species records that name each other, a restricted parent
\* or an unknown one; the structure lists no child_of.
TopologyTargets == {"A", "B", "C", "X", Restricted}
TopologyInputs ==
    UNION {{Input("new",
                  [k \in 1..n |-> Plain(ns[k], "Bos taurus", TRUE, refs[k])],
                  FALSE, FALSE, {}) :
               ns \in NameLists(n),
               refs \in ChildOfLists(n, TopologyTargets, MaxRefs)} :
           n \in 1..MaxBatch}

\* Pairs of records of any species that name each other, an accession or a
\* restricted parent; the first may lack its sex.
Species == {"Bos taurus", "Equus caballus", ""}
PairTargets == {"A", "B", "SAMEA1", Restricted}
PairInputs ==
    {Input("new", <<Plain("A", sp[1], sex, refs[1]), Plain("B", sp[2], TRUE, refs[2])>>,
           TRUE, FALSE, {}) :
        sp \in Species \X Species, sex \in BOOLEAN,
        refs \in ChildOfLists(2, PairTargets, MaxRefs)}

\* Updates: records identified by accession, well formed or not.
UpdateIds == {"SAMEA1", "SAMEA2", "SAMPLE-X", "BAD", NoValue}
UpdateRecords ==
    {Record(FALSE, [text |-> "Bos taurus", term |-> "NCBITaxon:9913"], TRUE, <<>>,
            <<>>, refs, "A", id) :
        id \in UpdateIds, refs \in {<<>>, <<"SAMEA1">>, <<"SAMEA2">>}}
UpdateInputs ==
    UNION {{Input("update", orgs, TRUE, FALSE, {}) : orgs \in [1..n -> UpdateRecords]} :
           n \in 1..2}

\* Single records with the variety the per-record checks look at.
Organisms ==
    {[text |-> "Bos taurus", term |-> "NCBITaxon:9913"],
     [text |-> "Equus caballus", term |-> "NCBITaxon:9913"],
     [text |-> "Bos taurus", term |-> "OTHER:1"],
     [text |-> "not provided", term |-> Restricted]}
BirthDates ==
    {<<>>, <<"2020-05-15", "YYYY-MM-DD">>, <<"2020-02-30", "YYYY-MM-DD">>,
     <<"15-05-2020", "YYYY-MM-DD">>}
Breeds == {<<>>, <<"Holstein", "LBO:0000156">>, <<"not applicable", "not applicable">>}
SingleRecords ==
    {Record(samples_core, organism, sex, birth_date, breed, refs, "A", NoValue) :
        samples_core \in BOOLEAN, organism \in Organisms, sex \in BOOLEAN,
        birth_date \in BirthDates, breed \in Breeds,
        refs \in {<<>>, <<"X">>}}
SingleInputs ==
    {Input("new", <<r>>, has_child_of, schema_loaded, {}) :
        r \in SingleRecords, has_child_of \in BOOLEAN, schema_loaded \in BOOLEAN}

\* One or two records looked up while the ontology service fails for a term.
OutageRecords ==
    {Record(FALSE, [text |-> "Bos taurus", term |-> "NCBITaxon:9913"], TRUE, <<>>,
            breed, <<>>, "A", NoValue) : breed \in Breeds}
OutageInputs ==
    UNION {{Input("new", orgs, TRUE, FALSE, ols_down) :
               orgs \in [1..n -> OutageRecords],
               ols_down \in {{"NCBITaxon:9913"}, {"LBO:0000156"}}} :
           n \in 1..2}

\* Three records, two of which bear the same name, of either species, each
\* naming at most one parent.
DuplicateInputs ==
    {Input("new", [k \in 1..3 |-> Plain(ns[k], sp[k], TRUE, refs[k])],
           TRUE, FALSE, {}) :
        ns \in {n \in NameLists(3) : Cardinality(Range(n)) < 3},
        sp \in [1..3 -> {"Bos taurus", "Equus caballus"}],
        refs \in [1..3 -> {<<>>, <<"A">>, <<"B">>}]}

\* The pairs again, handed to RelationshipValidator.validate_relationships.
ClassInputs == {[in EXCEPT !.entry = "validate_relationships"] : in \in PairInputs}

\* An organism term and a breed term handed to
\* BreedSpeciesValidator.validate_breed_for_species of either module.
BreedTerms == {"LBO:0000156", "LBO:0000001"} \cup MissingValues
BreedSpeciesInputs ==
    {[Input("new",
            <<Record(FALSE, organism, TRUE, <<>>, <<"Holstein", breed_term>>, <<>>,
                     "A", NoValue)>>,
            TRUE, FALSE, {})
        EXCEPT !.entry = module] :
        module \in {"breed_species_validator", "organism_validator_classes"},
        organism \in Organisms, breed_term \in BreedTerms}

\* Single records whose breed term the lookup service only knows in another
\* ontology, with a matching or a different label.
LabelInputs ==
    {Input("new",
           <<Record(FALSE, [text |-> "Bos taurus", term |-> "NCBITaxon:9913"], TRUE,
                    <<>>, <<text, "LBO:0000001">>, <<>>, "A", NoValue)>>,
           TRUE, schema_loaded, {}) :
        text \in {"Holstein", "Equus caballus"}, schema_loaded \in BOOLEAN}

\* Three records A, B, C that each name one of the three as parent, handed
\* to RelationshipValidator.validate_relationships.
ChainInputs ==
    {[Input("new",
            [k \in 1..3 |-> Plain(Names[k], "Bos taurus", TRUE, <<refs[k]>>)],
            FALSE, FALSE, {})
        EXCEPT !.entry = "validate_relationships"] :
        refs \in [1..3 -> {"A", "B", "C"}]}

\* Two records, the first with or without its sex, one of the two with a
\* sample_name that has no 'value' key.
ValuelessInputs ==
    {Input("new",
           <<Plain(names[1], "Bos taurus", sex, <<>>),
             Plain(names[2], "Bos taurus", TRUE, refs)>>,
           TRUE, FALSE, {}) :
        names \in {<<"A", Valueless>>, <<Valueless, "B">>}, sex \in BOOLEAN,
        refs \in {<<>>, <<"A">>, <<"X">>}}

\* A record, nested or flat, handed twice to validate_faang_organism_sample.
FaangSampleInputs ==
    {[Input("new",
            <<Record(samples_core, organism, sex, <<>>, <<>>, <<>>, "A", NoValue)>>,
            TRUE, FALSE, ols_down)
        EXCEPT !.entry = "validate_faang_organism_sample"] :
        samples_core \in BOOLEAN, organism \in Organisms, sex \in BOOLEAN,
        ols_down \in {{}, {"NCBITaxon:9913"}}}

\* A term and a label handed to OntologyValidator.validate_ontology_term.
OntologyTermInputs ==
    {[Input("new",
            <<Record(FALSE, [text |-> text, term |-> term], TRUE, <<>>, <<>>, <<>>,
                     "A", NoValue)>>,
            TRUE, FALSE, {})
        EXCEPT !.entry = "validate_ontology_term"] :
        term \in {"NCBITaxon:9913", "OTHER:1"} \cup MissingValues,
        text \in {"", "Bos taurus", "bos taurus", "Equus caballus"}}

\* Pairs handed to AsyncOrganismValidator.validate_batch_async: new records
\* that name each other or an accession, and updates with a good or a
\* malformed accession.
AsyncInputs ==
    {[in EXCEPT !.entry = "validate_batch_async"] :
        in \in {Input("new",
                      <<Plain("A", "Bos taurus", sex, refs[1]),
                        Plain("B", "Bos taurus", TRUE, refs[2])>>,
                      TRUE, FALSE, {}) :
                    sex \in BOOLEAN,
                    refs \in ChildOfLists(2, {"A", "B", "SAMEA1"}, MaxRefs)}
                \cup {in \in UpdateInputs :
                         \A k \in 1..Len(in.organisms) :
                             in.organisms[k].biosample_id \in {"SAMEA1", "BAD"}}}

\* Batches of two or three organoids handed to
\* PydanticValidator.validate_with_pydantic: each is derived from an organoid
\* of the batch, an unknown sample, an accession or a restricted parent, or
\* lacks derived_from.
OrganoidParents == {<<>>, <<"A">>, <<"B">>, <<"X">>, <<"SAMEA1">>, <<Restricted>>}
OrganoidInputs ==
    UNION {{[Input("new",
                   [k \in 1..n |-> Plain(ns[k], "Bos taurus", TRUE, parents[k])],
                   FALSE, FALSE, {})
               EXCEPT !.entry = "validate_with_pydantic"] :
               ns \in NameLists(n), parents \in [1..n -> OrganoidParents]} :
           n \in 2..3}

\* Two records whose terms _fetch_all_terms is asked for, first those of
\* the first record, then those of both, on the same validator.
FetchInputs ==
    {[Input("new", orgs, TRUE, FALSE, {}) EXCEPT !.entry = "_fetch_all_terms"] :
        orgs \in [1..2 -> OutageRecords]}

Inputs ==
    FetchInputs \cup OrganoidInputs \cup AsyncInputs \cup TopologyInputs \cup PairInputs \cup UpdateInputs \cup SingleInputs
        \cup OutageInputs \cup DuplicateInputs \cup ClassInputs
        \cup BreedSpeciesInputs \cup OntologyTermInputs \cup LabelInputs
        \cup FaangSampleInputs \cup ChainInputs \cup ValuelessInputs

\* What the schema validator may answer: up to MaxItems items, a failure
\* status (with a body) or no answer at all.
NotAsked == Response("none", <<>>)
E1 == <<"should have required property 'organism'">>
ElixirItems ==
    {Item(<<"/", "organism">>, <<E1>>), Item(<<"/", "organism">>, <<E1, E1>>),
     Item(<<"/", "organism">>, <<OneOfMsg>>),
     Item(<<"/", "child_of", "[", "0", "]">>, <<E1>>),
     Item(<<"/", "samples_core">>, <<E1>>)}
ElixirResponses ==
    {Response("ok", items) : items \in RefLists(ElixirItems, MaxItems)}
        \cup {Response("error", <<Item(<<"/", "organism">>, <<E1>>)>>), Response("raise", <<>>)}
BreedResponses ==
    {Response("ok", <<>>), Response("ok", <<Item(<<>>, <<E1>>)>>),
     Response("error", <<Item(<<>>, <<E1>>)>>), Response("raise", <<>>)}
\* What the ontology lookup service may answer for a term ([] also when the
\* request fails).
OlsAnswers ==
    {<<>>, <<Doc("Bos taurus", "NCBITAXON")>>, <<Doc("Bos taurus", "EFO")>>,
     <<Doc("Equus caballus", "EFO"), Doc("Bos taurus", "NCBITAXON")>>,
     <<Doc("Equus caballus", "NCBITAXON"), Doc("Bos taurus", "EFO")>>}
\* What the sample archive may answer for an accession.
BiosampleResponses ==
    {[status |-> "fail", organism |-> "", material |-> ""],
     [status |-> "ok", organism |-> "Bos taurus", material |-> "Organism"],
     [status |-> "ok", organism |-> "Equus caballus",
      material |-> "Specimen from organism"],
     [status |-> "ok", organism |-> "", material |-> ""]}

\* ------------------------------------------------------ the state machine
VARIABLES
    action,               \* 'new' or 'update'
    organisms,            \* json_data['organism']
    structure,            \* whether the type template lists child_of
    services,             \* the collaborators: what is loaded, down, answered
    pc,                   \* the position of validate_batch and of its caller
    validation_document,  \* validation_document['organism']
    ontology_cache,       \* self.ontology_cache
    ov_cache,             \* the caches of the class-level OntologyValidators
    biosamples_cache,     \* self.biosamples_cache
    calls,                \* the requests made, counted
    submission_status,    \* what get_submission_status returned
    results,              \* what RelationshipValidator.validate_relationships returned
    returned              \* the component called on its own and what it returned

vars == <<action, organisms, structure, services, pc, validation_document,
          ontology_cache, ov_cache, biosamples_cache, calls, submission_status,
          results, returned>>

Init ==
    \E in \in Inputs :
        /\ action = in.action
        /\ organisms = in.organisms
        /\ structure = in.has_child_of
        /\ services = [schema_loaded |-> in.schema_loaded, ols_down |-> in.ols_down,
                       elixir |-> <<>>, breed |-> <<>>, biosamples |-> <<>>]
        /\ pc = in.entry
        /\ validation_document = <<>>
        /\ ontology_cache = <<>>
        /\ ov_cache = {}
        /\ biosamples_cache = <<>>
        /\ calls = <<>>
        /\ submission_status = "none"
        /\ results = <<>>
        /\ returned = [of |-> "none", value |-> <<>>]

\* validate_batch, step 1, when an identifier of an update is malformed.
ReturnBiosampleErrors ==
    /\ pc \in {"validate_batch", "validate_batch_async"}
    /\ action = "update"
    /\ VerifyBiosampleIds(organisms) # <<>>
    /\ validation_document' = EarlyDocument(VerifyBiosampleIds(organisms))
    /\ pc' = "returned"
    /\ UNCHANGED <<action, organisms, structure, services, ontology_cache,
                   ov_cache, biosamples_cache, calls, submission_status, results,
                   returned>>

\* validate_batch going on to step 2 whatever step 1 found.
BatchFetchOntologyDataMutantUnchecked ==
    /\ pc = "validate_batch"
    /\ LET ids == CollectAllOntologyIds(organisms)
       IN /\ ontology_cache' = FetchAllTerms(ontology_cache, services, ids)
          /\ calls' = LogAll(calls, "ols", ids \ DOMAIN ontology_cache)
    /\ pc' = "first_pass"
    /\ UNCHANGED <<action, organisms, structure, services, validation_document,
                   ov_cache, biosamples_cache, submission_status, results, returned>>

\* validate_batch, step 2.
BatchFetchOntologyData ==
    /\ pc = "validate_batch"
    /\ action = "update" => VerifyBiosampleIds(organisms) = <<>>
    /\ LET ids == CollectAllOntologyIds(organisms)
       IN /\ ontology_cache' = FetchAllTerms(ontology_cache, services, ids)
          /\ calls' = LogAll(calls, "ols", ids \ DOMAIN ontology_cache)
    /\ pc' = "first_pass"
    /\ UNCHANGED <<action, organisms, structure, services, validation_document,
                   ov_cache, biosamples_cache, submission_status, results, returned>>

\* validate_batch_async, steps 2 and 3: the terms are fetched, then every
\* accession a record names as parent is fetched into biosamples_cache; the
\* loop over the records and the relationship pass follow as in validate_batch.
FetchAllBiosamples ==
    /\ pc = "validate_batch_async"
    /\ action = "update" => VerifyBiosampleIds(organisms) = <<>>
    /\ LET ids == CollectAllOntologyIds(organisms)
           biosample_ids ==
               {parent_id \in UNION {Range(organisms[k].child_of) :
                                        k \in 1..Len(organisms)} :
                   StartsWithSAM(parent_id)}
       IN /\ ontology_cache' = FetchAllTerms(ontology_cache, services, ids)
          /\ \E answers \in [biosample_ids -> BiosampleResponses] :
                 /\ services' = [services EXCEPT !.biosamples = answers]
                 /\ biosamples_cache' =
                        FetchBiosampleData(biosamples_cache, services', biosample_ids)
          /\ calls' = LogAll(LogAll(calls, "ols", ids \ DOMAIN ontology_cache),
                             "biosamples", biosample_ids)
    /\ pc' = "first_pass"
    /\ UNCHANGED <<action, organisms, structure, validation_document, ov_cache,
                   submission_status, results, returned>>

\* validate_batch, step 4: one turn of the loop over the records.
ValidateRecord ==
    /\ pc = "first_pass"
    /\ Len(validation_document) < Len(organisms)
    /\ ~GetRecordNameRaises(organisms[Len(validation_document) + 1], action)
    /\ LET k == Len(validation_document) + 1
           record == organisms[k]
           asks_breed ==
               /\ BreedAsked(record)
               /\ FAANGOrganismSample(record, services, ov_cache, calls, k).errors = <<>>
       IN \E elixir_response \in ElixirResponses \cup {NotAsked},
             breed_response \in BreedResponses \cup {NotAsked} :
              /\ (elixir_response = NotAsked) <=> ~services.schema_loaded
              /\ (breed_response = NotAsked) <=> ~asks_breed
              /\ services' = [services EXCEPT !.elixir = Append(@, elixir_response),
                                              !.breed = Append(@, breed_response)]
              /\ LET out == ValidateSingleOrganism(
                                record, k, GetRecordStructure(structure, record),
                                services', ontology_cache, ov_cache, calls)
                 IN /\ validation_document' = Append(validation_document, out.tree)
                    /\ ov_cache' = out.cache
                    /\ calls' = out.calls
    /\ UNCHANGED <<action, organisms, structure, pc, ontology_cache,
                   biosamples_cache, submission_status, results, returned>>

\* validate_batch, step 4, when _get_record_name raises KeyError for the next
\* record: nothing catches it and the exception leaves validate_batch.
RecordNameKeyError ==
    /\ pc = "first_pass"
    /\ Len(validation_document) < Len(organisms)
    /\ GetRecordNameRaises(organisms[Len(validation_document) + 1], action)
    /\ pc' = "raised"
    /\ UNCHANGED <<action, organisms, structure, services, validation_document,
                   ontology_cache, ov_cache, biosamples_cache, calls,
                   submission_status, results, returned>>

\* validate_batch with step 5 moved into the loop: the relationship pass runs
\* on the records validated so far, whether or not the loop is over.
SecondPassMutantEarly ==
    /\ pc = "first_pass"
    /\ Len(validation_document) >= 1
    /\ LET orgs == SubSeq(organisms, 1, Len(validation_document))
           ids == BiosampleIdsToFetch(orgs, action) \ DOMAIN biosamples_cache
       IN \E answers \in [ids -> BiosampleResponses] :
              /\ services' = [services EXCEPT !.biosamples = answers]
              /\ biosamples_cache' = FetchBiosampleData(biosamples_cache, services', ids)
              /\ calls' = LogAll(calls, "biosamples", ids)
              /\ validation_document' =
                     ValidateRelationshipsBatch(orgs, validation_document, action,
                                                biosamples_cache')
    /\ pc' = "returned"
    /\ UNCHANGED <<action, organisms, structure, ontology_cache, ov_cache,
                   submission_status, results, returned>>

\* validate_batch, step 5 and the return.
SecondPass ==
    /\ pc = "first_pass"
    /\ Len(validation_document) = Len(organisms)
    /\ IF Len(organisms) > 1
       THEN LET ids == BiosampleIdsToFetch(organisms, action) \ DOMAIN biosamples_cache
            IN \E answers \in [ids -> BiosampleResponses] :
                   /\ services' = [services EXCEPT !.biosamples = answers]
                   /\ biosamples_cache' =
                          FetchBiosampleData(biosamples_cache, services', ids)
                   /\ calls' = LogAll(calls, "biosamples", ids)
                   /\ validation_document' =
                          ValidateRelationshipsBatch(organisms, validation_document,
                                                     action, biosamples_cache')
       ELSE UNCHANGED <<services, biosamples_cache, calls, validation_document>>
    /\ pc' = "returned"
    /\ UNCHANGED <<action, organisms, structure, ontology_cache, ov_cache,
                   submission_status, results, returned>>

\* The caller asks for the status of the document validate_batch returned.
SubmissionStatus ==
    /\ pc = "returned"
    /\ submission_status' = GetSubmissionStatus(validation_document)
    /\ pc' = "done"
    /\ UNCHANGED <<action, organisms, structure, services, validation_document,
                   ontology_cache, ov_cache, biosamples_cache, calls, results,
                   returned>>

\* The lookup service is back and the caller hands the same batch to
\* validate_batch of the same validator again: the caches of the instance and
\* of the class-level validators are those the first call left.
ValidateBatchAgain ==
    /\ pc = "done"
    /\ submission_status # "none"
    /\ services.ols_down # {}
    /\ services' = [services EXCEPT !.ols_down = {}, !.elixir = <<>>, !.breed = <<>>,
                                    !.biosamples = <<>>]
    /\ validation_document' = <<>>
    /\ submission_status' = "none"
    /\ pc' = "validate_batch"
    /\ UNCHANGED <<action, organisms, structure, ontology_cache, ov_cache,
                   biosamples_cache, calls, results, returned>>

\* RelationshipValidator.validate_relationships, called on the batch (here
\* biosamples_cache is the cache of the RelationshipValidator).
RelationshipValidatorCall ==
    /\ pc = "validate_relationships"
    /\ LET ids == BiosampleIds(organisms) \ DOMAIN biosamples_cache
       IN \E answers \in [ids -> BiosampleResponses] :
              /\ services' = [services EXCEPT !.biosamples = answers]
              /\ biosamples_cache' = FetchBiosampleData(biosamples_cache, services', ids)
              /\ calls' = LogAll(calls, "biosamples", ids)
              /\ results' = ValidateRelationships(organisms, action, biosamples_cache',
                                                  Len(organisms))
    /\ pc' = "done"
    /\ UNCHANGED <<action, organisms, structure, validation_document,
                   ontology_cache, ov_cache, submission_status, returned>>

\* BreedSpeciesValidator.validate_breed_for_species, called with the organism
\* term and the breed term of the record (pc names the module of the class).
BreedSpeciesValidatorCall ==
    /\ pc \in {"breed_species_validator", "organism_validator_classes"}
    /\ LET organism_term == organisms[1].organism.term
           breed_term == organisms[1].breed[2]
       IN \E response \in BreedResponses \cup {NotAsked} :
              LET out == ValidateBreedForSpecies(pc, organism_term, breed_term, response)
              IN /\ (response = NotAsked) <=> ~out.asked
                 /\ services' = [services EXCEPT !.breed = <<response>>]
                 /\ calls' = IF out.asked
                             THEN AddCall(calls, <<"elixir", breed_term, 1>>)
                             ELSE calls
                 /\ returned' = [of |-> pc, value |-> out.errors]
    /\ pc' = "answered"
    /\ UNCHANGED <<action, organisms, structure, validation_document,
                   ontology_cache, ov_cache, biosamples_cache, submission_status,
                   results>>

\* OntologyValidator.validate_ontology_term, called with the term and the
\* text of the record's organism and some ontology name, on a fresh validator.
OntologyValidatorCall ==
    /\ pc = "validate_ontology_term"
    /\ LET term == organisms[1].organism.term
           text == organisms[1].organism.text
       IN \E ontology_name \in {"NCBITaxon", "PATO"}, ols_data \in OlsAnswers :
              LET out == ValidateOntologyTerm(term, ontology_name, text, ols_data)
              IN /\ out.asked \/ ols_data = <<>>
                 /\ calls' = IF out.asked THEN AddCall(calls, <<"ols", term, 1>>)
                             ELSE calls
                 /\ returned' = [of |-> pc, ontology_name |-> ontology_name,
                                 ols_data |-> ols_data,
                                 value |-> [errors |-> out.errors,
                                            warnings |-> out.warnings]]
    /\ pc' = "answered"
    /\ UNCHANGED <<action, organisms, structure, services, validation_document,
                   ontology_cache, ov_cache, biosamples_cache, submission_status,
                   results>>

\* validate_faang_organism_sample, called on the record and then called
\* again on the same dict; returned keeps what each call was given and raised.
FaangOrganismSampleCall ==
    /\ pc \in {"validate_faang_organism_sample", "validate_faang_organism_sample again"}
    /\ LET first == pc = "validate_faang_organism_sample"
           out == ValidateFaangOrganismSample(organisms[1], services, ov_cache, calls)
       IN /\ organisms' = <<out.data>>
          /\ ov_cache' = out.cache
          /\ calls' = out.calls
          /\ returned' =
                 [of |-> "validate_faang_organism_sample",
                  given |-> (IF first THEN <<>> ELSE returned.given) \o <<organisms[1]>>,
                  value |-> Append(returned.value, out.errors)]
          /\ pc' = IF first THEN "validate_faang_organism_sample again" ELSE "answered"
    /\ UNCHANGED <<action, structure, services, validation_document, ontology_cache,
                   biosamples_cache, submission_status, results>>

\* PydanticValidator.validate_with_pydantic, called on the batch of
\* organoids; the schema validator reports errors for some of them.
ValidateWithPydanticCall ==
    /\ pc = "validate_with_pydantic"
    /\ \E elixir_errors \in [1..Len(organisms) -> BOOLEAN] :
           returned' = [of |-> pc, given |-> elixir_errors,
                        value |-> ValidateWithPydantic(organisms, elixir_errors)]
    /\ pc' = "answered"
    /\ UNCHANGED <<action, organisms, structure, services, validation_document,
                   ontology_cache, ov_cache, biosamples_cache, calls,
                   submission_status, results>>

\* _fetch_all_terms up to gather: the tasks are created. returned holds the
\* cache the call started from (given) and where each task is (value).
CreateTasks ==
    /\ pc \in {"_fetch_all_terms", "_fetch_all_terms again"}
    /\ LET ids == IF pc = "_fetch_all_terms"
                  THEN CollectAllOntologyIds(SubSeq(organisms, 1, 1))
                  ELSE CollectAllOntologyIds(organisms)
       IN returned' = [of |-> "_fetch_all_terms", given |-> ontology_cache,
                       value |-> [term_id \in TasksCreated(ontology_cache, ids) |->
                                     "created"]]
    /\ pc' = IF pc = "_fetch_all_terms" THEN "gather" ELSE "gather again"
    /\ UNCHANGED <<action, organisms, structure, services, validation_document,
                   ontology_cache, ov_cache, biosamples_cache, calls,
                   submission_status, results>>

\* _fetch_term of one task, up to its first await: the request is answered
\* with status 200 or another status, or raises.
FetchTermResponse ==
    /\ pc \in {"gather", "gather again"}
    /\ \E term_id \in DOMAIN returned.value :
           /\ returned.value[term_id] = "created"
           /\ \E outcome \in {"status 200", "other status", "raised"} :
                  returned' = [returned EXCEPT !.value[term_id] = outcome]
           /\ calls' = AddCall(calls, <<"ols", term_id, 0>>)
    /\ UNCHANGED <<action, organisms, structure, services, pc, validation_document,
                   ontology_cache, ov_cache, biosamples_cache, submission_status,
                   results>>

\* _fetch_term of one task after status 200: the body is read and the docs
\* are stored, or reading the body raises.
FetchTermJson ==
    /\ pc \in {"gather", "gather again"}
    /\ \E term_id \in DOMAIN returned.value :
           /\ returned.value[term_id] = "status 200"
           /\ \/ /\ ontology_cache' = StoreTerm(ontology_cache, term_id)
                 /\ returned' = [returned EXCEPT !.value[term_id] = "stored"]
              \/ /\ ontology_cache' = ontology_cache
                 /\ returned' = [returned EXCEPT !.value[term_id] = "raised"]
    /\ UNCHANGED <<action, organisms, structure, services, pc, validation_document,
                   ov_cache, biosamples_cache, calls, submission_status, results>>

\* gather returns once every task is over.
GatherReturns ==
    /\ pc \in {"gather", "gather again"}
    /\ \A term_id \in DOMAIN returned.value :
           returned.value[term_id] \in {"stored", "other status", "raised"}
    /\ pc' = IF pc = "gather" THEN "_fetch_all_terms again" ELSE "answered"
    /\ UNCHANGED <<action, organisms, structure, services, validation_document,
                   ontology_cache, ov_cache, biosamples_cache, calls,
                   submission_status, results, returned>>

Next ==
    \/ CreateTasks
    \/ FetchTermResponse
    \/ FetchTermJson
    \/ GatherReturns
    \/ ValidateWithPydanticCall
    \/ ValidateBatchAgain
    \/ FetchAllBiosamples
    \/ RecordNameKeyError
    \/ FaangOrganismSampleCall
    \/ OntologyValidatorCall
    \/ BreedSpeciesValidatorCall
    \/ ReturnBiosampleErrors
    \/ BatchFetchOntologyData
    \/ ValidateRecord
    \/ SecondPass
    \/ SubmissionStatus
    \/ RelationshipValidatorCall

Spec == Init /\ [][Next]_vars

\* ------------------------------------------------------------ properties
\* validate_batch has returned the document of a full run (both passes).
FullRun ==
    /\ pc \in {"returned", "done"}
    /\ action = "update" => VerifyBiosampleIds(organisms) = <<>>
    /\ Len(validation_document) = Len(organisms)
\* The records whose outcome tree is built.
Validated ==
    IF pc = "first_pass" \/ FullRun THEN 1..Len(validation_document) ELSE {}
NoRepeats(messages) ==
    \A i, j \in 1..Len(messages) : i # j => messages[i] # messages[j]
IsRelationshipMsg(m) ==
    m[1] \in {NoEntityMsg("")[1], SpeciesMsg("", "")[1], MaterialMsg("")[1],
              CircularMsg("")[1]}
\* The structural violations of record k.
Violations(k) == FAANGOrganismSample(organisms[k], services, {}, <<>>, k).errors
\* The node a field path addresses: its names and indices.
AddressOf(loc) == SelectSeq(loc, LAMBDA token : token # ".")
\* The node of the i-th reference (from 1) of a record.
RefNode(i) == <<"child_of", StrOf(i - 1)>>
ErrorsAt(t, a) == IF a \in DOMAIN t THEN Range(t[a].errors) ELSE {}

\* C1: once get_submission_status has answered for a document returned by
\* validate_batch, the answer is "Fix issues" exactly when some node of some
\* outcome tree of the document holds an error.
C1_StatusIffSomeError ==
    (pc = "done" /\ submission_status # "none") =>
        (submission_status = "Fix issues"
            <=> \E k \in 1..Len(validation_document) :
                    \E a \in DOMAIN validation_document[k] :
                        validation_document[k][a].errors # <<>>)

\* C2: at every step of a run, no node of the outcome tree of a validated
\* record (and no result of the relationship validator) holds the same
\* message twice among its errors or twice among its warnings.
C2_NoRepeatedMessage ==
    /\ \A k \in Validated :
           \A a \in DOMAIN validation_document[k] :
               /\ NoRepeats(validation_document[k][a].errors)
               /\ NoRepeats(validation_document[k][a].warnings)
    /\ \A n \in DOMAIN results : NoRepeats(results[n].errors)

\* C3: for a record that failed structural validation, no request to a
\* collaborator is made for it (none logged under its position, and none for
\* an accession it alone names), and its tree holds no relationship finding.
C3_FailedRecordLeftAlone ==
    \A k \in Validated :
        Violations(k) # <<>> =>
            /\ \A key \in DOMAIN calls : key[3] # k
            /\ \A key \in DOMAIN calls :
                   key[1] = "biosamples" =>
                       \E j \in 1..Len(organisms) :
                           j # k /\ key[2] \in Range(organisms[j].child_of)
            /\ \A a \in DOMAIN validation_document[k] :
                   \A m \in Range(validation_document[k][a].errors) :
                       ~IsRelationshipMsg(m)

\* C4: for a record that failed structural validation, every violation found
\* is in the tree, at the node its own field path addresses.
C4_EveryViolationAtItsPath ==
    \A k \in Validated :
        \A v \in Range(Violations(k)) :
            v.msg \in ErrorsAt(validation_document[k], AddressOf(v.loc))

\* The identifier of record k, and what a reference resolves to.
NameOf(k) == GetRecordName(organisms[k], k - 1, action)
Resolvable(target) ==
    target \in RecordNames(organisms, action) \cup DOMAIN biosamples_cache
SpeciesOfParent(target) ==
    IF target \in RecordNames(organisms, action)
    THEN organisms[LastIndex(organisms, action, target)].organism.text
    ELSE biosamples_cache[target].organism
\* The references (record, position) of the batch.
References == {<<k, i>> \in (1..Len(organisms)) \X (1..(MaxRefs + 1)) :
                  i <= Len(organisms[k].child_of)}
RefErrors(k, i) == ErrorsAt(validation_document[k], RefNode(i))

\* C5: after validate_batch, when two records of the batch list each other in
\* child_of, each reference of one to the other carries the error "parent
\* '<target>' is listing the child as its parent" at its own index.
C5_MutualParentsBothFlagged ==
    FullRun =>
        \A a, b \in 1..Len(organisms) :
            (/\ NameOf(a) # NameOf(b)
             /\ NameOf(b) \in Range(organisms[a].child_of)
             /\ NameOf(a) \in Range(organisms[b].child_of)) =>
                \A i \in 1..Len(organisms[a].child_of) :
                    organisms[a].child_of[i] = NameOf(b) =>
                        CircularMsg(NameOf(b)) \in RefErrors(a, i)

\* C6: after validate_batch on a batch of one or more records, every
\* reference whose target is not the sentinel, not an identifier of the batch
\* and not in the accession cache carries "no entity '<target>' found" and no
\* other relationship error.
C6_UnresolvedTargetReported ==
    FullRun =>
        \A r \in References :
            LET target == organisms[r[1]].child_of[r[2]]
            IN (target # Restricted /\ ~Resolvable(target)) =>
                   /\ NoEntityMsg(target) \in RefErrors(r[1], r[2])
                   /\ \A m \in RefErrors(r[1], r[2]) :
                          IsRelationshipMsg(m) => m = NoEntityMsg(target)

\* C7: after validate_batch, a reference to a resolvable parent carries the
\* species-mismatch error naming both species exactly when both species are
\* non-empty and differ, and carries no other species-mismatch error.
C7_SpeciesMismatchExactly ==
    FullRun =>
        \A r \in References :
            LET target == organisms[r[1]].child_of[r[2]]
                child == organisms[r[1]].organism.text
                parent == SpeciesOfParent(target)
            IN (target # Restricted /\ Resolvable(target)) =>
                   /\ SpeciesMsg(child, parent) \in RefErrors(r[1], r[2])
                          <=> (child # "" /\ parent # "" /\ child # parent)
                   /\ \A m \in RefErrors(r[1], r[2]) :
                          m[1] = SpeciesMsg("", "")[1] => m = SpeciesMsg(child, parent)

\* The records the relationship pass of validate_batch goes through.
Visited ==
    IF FullRun /\ Len(organisms) > 1 THEN Mapped(organisms, action) ELSE {}
\* Record k declares the sentinel among its references.
HasRestricted(k) == Restricted \in Range(organisms[k].child_of)

\* C8: a reference whose value is "restricted access" holds no relationship
\* error and causes no accession lookup, and the other references of its
\* record are still checked: an unresolved one is reported, one to a parent
\* that lists the child is reported (in the outcome trees of validate_batch
\* and in the results of RelationshipValidator).
C8_RestrictedReferenceSkipped ==
    /\ \A key \in DOMAIN calls : key[2] # Restricted
    /\ FullRun =>
           \A r \in References :
               LET target == organisms[r[1]].child_of[r[2]]
               IN /\ target = Restricted =>
                         \A m \in RefErrors(r[1], r[2]) : ~IsRelationshipMsg(m)
                  /\ (r[1] \in Visited /\ HasRestricted(r[1])
                        /\ target # Restricted) =>
                         /\ ~Resolvable(target) =>
                                NoEntityMsg(target) \in RefErrors(r[1], r[2])
                         /\ (/\ target \in RecordNames(organisms, action)
                             /\ NameOf(r[1]) \in Range(
                                    organisms[LastIndex(organisms, action, target)].child_of))
                               => CircularMsg(target) \in RefErrors(r[1], r[2])
    /\ (pc = "done" /\ validation_document = <<>>) =>
           /\ \A n \in DOMAIN results :
                  \A m \in Range(results[n].errors) : m[2] # Restricted
           /\ \A r \in References :
                  LET target == organisms[r[1]].child_of[r[2]]
                      name == GetOrganismIdentifier(organisms[r[1]], action)
                  IN (HasRestricted(r[1]) /\ target # Restricted
                        /\ target \notin Identifiers(organisms, action)
                        /\ target \notin DOMAIN biosamples_cache) =>
                         /\ name \in DOMAIN results
                         /\ NoEntityMsg(target) \in Range(results[name].errors)

\* C8 witness: a checked record declares the sentinel and then an unknown
\* parent; the first reference holds nothing, the second the error.
C8_Witness ==
    /\ FullRun
    /\ \E k \in Visited :
           /\ organisms[k].child_of = <<Restricted, "X">>
           /\ RefErrors(k, 1) = {}
           /\ RefErrors(k, 2) = {NoEntityMsg("X")}

\* The relationship errors the i-th reference of record k can give rise to.
Warranted(k, i, m) ==
    LET target == organisms[k].child_of[i]
    IN \/ m \in {NoEntityMsg(target), MaterialMsg(target), CircularMsg(target)}
       \/ /\ m[1] = SpeciesMsg("", "")[1]
          /\ m[2] = organisms[k].organism.text
\* In the outcome trees, a relationship error sits at the element of a
\* reference it arises from.
C9_InTrees ==
    FullRun =>
        \A k \in 1..Len(validation_document) :
            \A a \in DOMAIN validation_document[k] :
                \A m \in Range(validation_document[k][a].errors) :
                    IsRelationshipMsg(m) =>
                        \E i \in 1..Len(organisms[k].child_of) :
                            a = RefNode(i) /\ Warranted(k, i, m)
\* RelationshipValidator attaches no relationship error to child_of as a whole.
C9_InResults == \A n \in DOMAIN results : results[n].errors = <<>>

\* C9: every relationship error produced for the i-th reference of a record
\* is attached at the i-th element of the record's child_of, never at the
\* field as a whole and never at another index.
C9_ErrorsAtTheirOwnIndex == C9_InTrees /\ C9_InResults

\* A response of the schema validator that is not a success.
Failed(response) == response.status \in {"error", "raise"}
Quiet(response) == IF Failed(response) THEN Response("ok", <<>>) ELSE response
\* C10: while the records are validated, the tree of a record for which the
\* schema validator (asked about the record or about its breed) failed is the
\* tree the same record gets when the validator answers with no finding; the
\* breed check is still made after a failed record validation and its error
\* kept, and the recommended-field warning is kept.
C10_FailedValidatorAddsNothing ==
    pc = "first_pass" =>
        \A k \in 1..Len(validation_document) :
            LET record == organisms[k]
                quiet == [services EXCEPT !.elixir[k] = Quiet(@),
                                          !.breed[k] = Quiet(@)]
                passed == Failed(services.elixir[k]) /\ Violations(k) = <<>>
            IN /\ validation_document[k] =
                      ValidateSingleOrganism(record, k,
                          GetRecordStructure(structure, record), quiet,
                          ontology_cache, ov_cache, calls).tree
               /\ (passed /\ BreedAsked(record)) =>
                      /\ <<"elixir", record.breed[2], k>> \in DOMAIN calls
                      /\ ValidateWithElixir(services.breed[k]) # <<>> =>
                             BreedMsg(record.breed[1], record.organism.text)
                                 \in ErrorsAt(validation_document[k], <<"organism">>)
               /\ (passed /\ record.birth_date = <<>>) =>
                      RecommendedMsg \in Range(validation_document[k][<<"birth_date">>].warnings)

\* C10 witness: the validator failed for the record, answered a finding for
\* its breed, and the organism node holds the breed error.
C10_Witness ==
    /\ pc = "first_pass"
    /\ Len(validation_document) = 1
    /\ services.elixir[1] = Response("error", <<Item(<<"/", "organism">>, <<E1>>)>>)
    /\ services.breed[1] = Response("ok", <<Item(<<>>, <<E1>>)>>)
    /\ ErrorsAt(validation_document[1], <<"organism">>) =
           {BreedMsg("Holstein", "Bos taurus")}
\* C11: validate_breed_for_species returns no error and makes no request to
\* the schema validator when the species has no registered breed restriction
\* or the breed term is one of the four missing-value sentinels; the breed
\* check of validate_batch makes no request in those cases either.
C11_BreedCheckNoOps ==
    /\ returned.of \in {"breed_species_validator", "organism_validator_classes"} =>
           LET organism_term == organisms[1].organism.term
               breed_term == organisms[1].breed[2]
           IN (organism_term \notin SpeciesBreedLinks \/ breed_term \in MissingValues) =>
                  /\ returned.value = <<>>
                  /\ calls = <<>>
    /\ \A k \in Validated :
           LET record == organisms[k]
           IN (/\ record.breed # <<>>
               /\ \/ record.organism.term \notin SpeciesBreedLinks
                  \/ record.breed[2] \in MissingValues) =>
                  <<"elixir", record.breed[2], k>> \notin DOMAIN calls
\* C12: while the records are validated, a record that passed structural
\* validation, has a breed and a species with a registered breed restriction,
\* and for whose breed term the schema validator answered a non-empty result,
\* holds the fixed message "Breed doesn't match the animal species" among
\* the errors of its organism node, once, and no breed error at its breed node.
C12_BreedMismatchOnOrganism ==
    pc = "first_pass" =>
        \A k \in 1..Len(validation_document) :
            LET record == organisms[k]
                at_organism == validation_document[k][<<"organism">>].errors
            IN (/\ Violations(k) = <<>>
                /\ BreedAsked(record)
                /\ services.breed[k].status = "ok"
                /\ services.breed[k].items # <<>>) =>
                   /\ Cardinality({i \in 1..Len(at_organism) :
                                      at_organism[i] = BreedMismatchMsg}) = 1
                   /\ \A m \in Range(at_organism) :
                          m[1] = BreedMsg("", "")[1] => m = BreedMismatchMsg
                   /\ ErrorsAt(validation_document[k], <<"breed">>) = {}
\* C13: no lookup is ever made for one of the four missing-value sentinels
\* used as a term, and validate_ontology_term returns a result with no error
\* and no warning for it, whatever the ontology it is given.
C13_SentinelTermIsEmpty ==
    /\ \A key \in DOMAIN calls : key[1] = "ols" => key[2] \notin MissingValues
    /\ (/\ returned.of = "validate_ontology_term"
        /\ organisms[1].organism.term \in MissingValues) =>
           /\ returned.value.errors = <<>>
           /\ returned.value.warnings = <<>>
\* The lowered labels a text is to be compared with: those of the entries of
\* the expected ontology, or of all entries when there is none.
LabelsToMatch(ols_data, expected_ontology) ==
    LET of_ontology == {Lower(d.label) : d \in
                           {e \in Range(ols_data) :
                               Lower(e.ontology_name) = Lower(expected_ontology)}}
    IN IF of_ontology # {} THEN of_ontology
       ELSE {Lower(d.label) : d \in Range(ols_data)}
IsLabelMsg(m) == m[1] = LabelMsg("", "", "")[1]
\* C14: when the lookup of a term found entries and a label was supplied, the
\* label, lowered, is compared with the labels of the entries of the expected
\* ontology, or of all entries when none is of that ontology: a mismatch
\* gives exactly one warning and no error, a match gives nothing. This holds
\* for validate_ontology_term and for the consistency check of validate_batch.
C14_LabelMismatchWarnsOnce ==
    /\ (/\ returned.of = "validate_ontology_term"
        /\ organisms[1].organism.term # Restricted
        /\ returned.ols_data # <<>>
        /\ organisms[1].organism.text # "") =>
           LET text == organisms[1].organism.text
               labels == LabelsToMatch(returned.ols_data, returned.ontology_name)
           IN /\ returned.value.errors = <<>>
              /\ Len(returned.value.warnings) = IF Lower(text) \in labels THEN 0 ELSE 1
    /\ pc = "first_pass" =>
           \A k \in 1..Len(validation_document) :
               \A f \in {"organism", "sex", "breed"} :
                   LET record == organisms[k]
                       t == validation_document[k]
                       term == TermOf(record, f)
                       labels == LabelsToMatch(ontology_cache[term],
                                     ExpectedOntology(services.schema_loaded, f))
                       found == {i \in 1..Len(t[<<f>>].warnings) :
                                    IsLabelMsg(t[<<f>>].warnings[i])}
                   IN (/\ Violations(k) = <<>>
                       /\ Present(record, f)
                       /\ <<f>> \in DOMAIN t
                       /\ term \in DOMAIN ontology_cache
                       /\ ontology_cache[term] # <<>>) =>
                          /\ Cardinality(found) =
                                 IF Lower(ValueOrText(record, f)) \in labels THEN 0 ELSE 1
                          /\ \A m \in Range(t[<<f>>].errors) : ~IsLabelMsg(m)
\* The term-not-found violations of record k.
UnknownTerms(k) ==
    {v \in Range(Violations(k)) :
        \E owner \in {"Organism", "Sex", "Breed"}, f \in {"organism", "sex", "breed"} :
            /\ v.loc = <<f, ".", "term">>
            /\ v.msg = TermInvalidMsg(owner, TermOf(organisms[k], f))}
\* C15: while the records are validated, a record whose only structural
\* violations are terms the lookup did not find holds, for each, the
\* not-found error at the field of the term, and holds every finding its
\* remaining checks (recommended fields, dates, missing values, labels,
\* breed) give on the record.
C15_UnknownTermIsNotTerminal ==
    pc = "first_pass" =>
        \A k \in 1..Len(validation_document) :
            LET record == organisms[k]
                t == validation_document[k]
                rest == AdditionalValidations(GetRecordStructure(structure, record),
                            record, services.schema_loaded, ontology_cache,
                            services.breed[k])
            IN (UnknownTerms(k) # {} /\ UnknownTerms(k) = Range(Violations(k))) =>
                   /\ \A v \in UnknownTerms(k) :
                          v.msg \in ErrorsAt(t, <<v.loc[1]>>)
                                       \cup ErrorsAt(t, AddressOf(v.loc))
                   /\ \A a \in DOMAIN rest :
                          /\ a \in DOMAIN t
                          /\ Range(rest[a].errors) \subseteq Range(t[a].errors)
                          /\ Range(rest[a].warnings) \subseteq Range(t[a].warnings)
\* C16: after validate_batch, an accession whose lookup failed is not in the
\* cache, and the references that carry the error "no entity '<accession>'
\* found" are exactly the references that name it.
C16_FailedLookupIsUnresolved ==
    FullRun =>
        \A id \in DOMAIN services.biosamples :
            services.biosamples[id].status = "fail" =>
                /\ id \notin DOMAIN biosamples_cache
                /\ \A r \in References :
                       organisms[r[1]].child_of[r[2]] = id
                           <=> NoEntityMsg(id) \in RefErrors(r[1], r[2])
\* C17: two validations of the same record by the same validator, with the
\* same answers of the collaborators, give the same outcome (the same tree in
\* validate_batch, the same violations from validate_faang_organism_sample),
\* and a validation leaves the record it was given as it was.
C17_ValidationIsRepeatable ==
    /\ pc = "first_pass" =>
           \A j, k \in 1..Len(validation_document) :
               (/\ organisms[j] = organisms[k]
                /\ services.elixir[j] = services.elixir[k]
                /\ services.breed[j] = services.breed[k]) =>
                   validation_document[j] = validation_document[k]
    /\ returned.of = "validate_faang_organism_sample" =>
           /\ \A i \in 1..Len(returned.value) : returned.value[i] = returned.value[1]
           /\ \A i \in 1..Len(returned.given) : returned.given[i] = returned.given[1]
           /\ organisms[1] = returned.given[1]
IsCircularMsg(m) == m[1] = CircularMsg("")[1]
\* C18: a mutual-parent error is only ever attached to a reference whose
\* target is a record of the batch that lists the referring record itself: in
\* a chain A -> B -> C -> A no reference gets it (in the outcome trees of
\* validate_batch and in the results of RelationshipValidator).
C18_OnlyDirectCycles ==
    /\ FullRun =>
           \A r \in References :
               \A m \in RefErrors(r[1], r[2]) :
                   IsCircularMsg(m) =>
                       LET target == organisms[r[1]].child_of[r[2]]
                       IN /\ m = CircularMsg(target)
                          /\ target \in RecordNames(organisms, action)
                          /\ NameOf(r[1]) \in Range(
                                 organisms[LastIndex(organisms, action, target)].child_of)
    /\ \A n \in DOMAIN results :
           \A m \in Range(results[n].errors) :
               IsCircularMsg(m) =>
                   /\ m[2] \in Identifiers(organisms, action)
                   /\ n \in Range(organisms[LastBearer(organisms, action, m[2])].child_of)
                   /\ \E k \in 1..Len(organisms) :
                          /\ GetOrganismIdentifier(organisms[k], action) = n
                          /\ m[2] \in Range(organisms[k].child_of)

\* C18 witness: validate_batch has gone through the chain A -> B -> C -> A
\* and no node of the three trees holds an error.
C18_Witness ==
    /\ FullRun
    /\ Len(organisms) = 3
    /\ \A k \in 1..3 : NameOf(k) = Names[k]
    /\ organisms[1].child_of = <<"B">>
    /\ organisms[2].child_of = <<"C">>
    /\ organisms[3].child_of = <<"A">>
    /\ \A k \in 1..3 : <<"child_of", "0">> \in DOMAIN validation_document[k]
    /\ \A k \in 1..3 : \A a \in DOMAIN validation_document[k] :
           validation_document[k][a].errors = <<>>
\* C19: validate_batch never raises; when it returns (the identifiers of an
\* update being well formed) every record of the batch has its tree in the
\* document; and the tree a record gets in the first pass is the one the
\* record gets when validated alone by a fresh validator, whatever the
\* records before it were.
C19_BatchNeverAborts ==
    /\ pc # "raised"
    /\ (pc = "returned" /\ (action = "update" => VerifyBiosampleIds(organisms) = <<>>)) =>
           Len(validation_document) = Len(organisms)
    /\ pc = "first_pass" =>
           \A k \in 1..Len(validation_document) :
               validation_document[k] =
                   ValidateSingleOrganism(organisms[k], k,
                       GetRecordStructure(structure, organisms[k]), services,
                       ontology_cache, {}, <<>>).tree
\* The tree the per-record pass builds for record k, its findings attached.
FirstPassTree(k) ==
    ValidateSingleOrganism(organisms[k], k, GetRecordStructure(structure, organisms[k]),
                           services, ontology_cache, {}, <<>>).tree
HasRelationshipMsg(t) ==
    \E a \in DOMAIN t : \E m \in Range(t[a].errors) : IsRelationshipMsg(m)
\* A step of validate_batch or validate_batch_async that ends the loop over
\* the records or rewrites a tree that is already in the document.
TouchesTrees ==
    /\ pc = "first_pass"
    /\ \/ pc' = "returned"
       \/ \E k \in 1..Len(validation_document) :
              \/ k > Len(validation_document')
              \/ validation_document'[k] # validation_document[k]
\* C20: in validate_batch and validate_batch_async the relationship pass
\* starts only after the per-record pass is over for every record: while the
\* loop runs no tree carries a relationship finding, and the step that
\* rewrites the trees starts from a document that holds, for every record of
\* the batch, the tree of the per-record pass with its findings attached.
C20_RelationshipPassIsLast ==
    /\ [](pc = "first_pass" =>
             \A k \in 1..Len(validation_document) :
                 ~HasRelationshipMsg(validation_document[k]))
    /\ [][TouchesTrees =>
             /\ Len(validation_document) = Len(organisms)
             /\ \A k \in 1..Len(organisms) : validation_document[k] = FirstPassTree(k)]_vars
\* validate_batch_async (the accession was fetched before the loop, in vain,
\* and again by the relationship pass) has returned a document of two trees
\* in which the relationship pass left a finding.
C20_Witness ==
    /\ pc = "returned"
    /\ Len(organisms) > 1
    /\ Len(validation_document) = Len(organisms)
    /\ \E key \in DOMAIN calls : key[1] = "biosamples" /\ calls[key] = 2
    /\ \E k \in 1..Len(validation_document) : HasRelationshipMsg(validation_document[k])
\* The lookups a checker instance made for a term while validating records
\* 1..n (the class-level validator of the field the term belongs to).
RECURSIVE Lookups(_, _)
Lookups(term_id, n) ==
    IF n = 0 THEN 0
    ELSE Lookups(term_id, n - 1)
         + (IF <<"ols", term_id, n>> \in DOMAIN calls THEN calls[<<"ols", term_id, n>>]
            ELSE 0)
\* C21: on one checker instance the lookup service is asked at most once for
\* a term ID, also when the first lookup failed or found nothing: neither
\* the validators of the fields over the records of a batch nor the batch
\* fetch of the engine ask twice for the same term.
C21_OneLookupPerTerm ==
    \A key \in DOMAIN calls :
        key[1] = "ols" =>
            IF key[3] = 0 THEN calls[key] <= 1
            ELSE Lookups(key[2], Len(organisms)) <= 1
\* C22: the term caches of a validator only grow: across every step, also
\* across a second validate_batch on the same validator, a term ID that is in
\* the cache stays there with the docs it was first stored with.
C22_TermCacheOnlyGrows ==
    [][/\ \A term_id \in DOMAIN ontology_cache :
              /\ term_id \in DOMAIN ontology_cache'
              /\ ontology_cache'[term_id] = ontology_cache[term_id]
       /\ ov_cache \subseteq ov_cache']_vars
\* A second validate_batch has fetched the term whose lookup failed in the
\* first one, into a cache that held the other terms already.
C22_Witness ==
    /\ pc = "first_pass"
    /\ \E key \in DOMAIN calls :
           /\ key[1] = "ols" /\ key[3] = 0 /\ calls[key] = 2
           /\ key[2] \in DOMAIN ontology_cache
    /\ Cardinality(DOMAIN ontology_cache) > 1
\* C23: within a batch validation the accession service is asked at most
\* once for an accession, and never for an accession that identifies a
\* record of the batch (validate_batch, validate_batch_async and
\* RelationshipValidator.validate_relationships, also when a fetch fails).
C23_OneFetchPerAccession ==
    \A key \in DOMAIN calls :
        key[1] = "biosamples" =>
            /\ calls[key] <= 1
            /\ key[2] \notin RecordNames(organisms, action)
\* Field paths in the slash notation and in the dot notation, each with the
\* node address it stands for.
MergePath(slash, dot, address) == [slash |-> slash, dot |-> dot, address |-> address]
MergePaths ==
    {MergePath(<<"/", "organism">>, <<"organism">>, <<"organism">>),
     MergePath(<<"/", "samples_core">>, <<"samples_core">>, <<"samples_core">>),
     MergePath(<<"/", "child_of", "[", "0", "]">>, <<"child_of", ".", "0">>,
               <<"child_of", "0">>),
     MergePath(<<"/", "child_of", "[", "3", "]">>, <<"child_of", ".", "3">>,
               <<"child_of", "3">>),
     MergePath(<<"/", "nowhere">>, <<"nowhere">>, <<"nowhere">>)}
\* C24: merging a finding into the tree of a record attaches the messages to
\* the node its path addresses when that node is in the tree (a dict node, a
\* list item included), the same for the slash and the dot notation, and
\* leaves the tree as it was when the path addresses no node.
C24_FindingMergedAtItsNode ==
    \A k \in 1..Len(organisms) :
        LET t == GetRecordStructure(structure, organisms[k])
        IN \A p \in MergePaths :
               LET merged == ApplyErrorsToPath(t, p.slash, <<E1>>)
               IN /\ merged = ApplyErrorsToPath(t, p.dot, <<E1>>)
                  /\ p.address \notin DOMAIN t => merged = t
                  /\ (p.address \in DOMAIN t /\ t[p.address].kind = "dict") =>
                         merged = [t EXCEPT ![p.address].errors = @ \o <<E1>>]
\* The responses the schema validator gave in this run.
ResponsesSeen == Range(services.elixir) \cup Range(services.breed)
\* The items of a response that keep a message once the oneOf message is
\* taken out, by their index.
KeptIndices(items) ==
    {i \in 1..Len(items) : \E j \in 1..Len(items[i].errors) : items[i].errors[j] # OneOfMsg}
\* C25: from a successful response the normalized result holds, in order,
\* each item that has a message other than the oneOf message, with its path
\* and its other messages in order, and nothing else; and the schema put in
\* the request of a breed check carries a $schema marker, in the validator
\* classes and in validate_batch.
C25_NormalizedResponse ==
    /\ \A response \in ResponsesSeen :
           response.status = "ok" =>
               LET items == response.items
                   normalized == OvValidateWithElixir(response)
               IN /\ Len(normalized) = Cardinality(KeptIndices(items))
                  /\ \A j \in 1..Len(normalized) :
                         LET i == CHOOSE i \in KeptIndices(items) :
                                      Cardinality({h \in KeptIndices(items) : h < i}) = j - 1
                         IN /\ normalized[j].dataPath = items[i].dataPath
                            /\ normalized[j].errors = FilterOneOf(items[i].errors)
                            /\ OneOfMsg \notin Range(normalized[j].errors)
    /\ (/\ returned.of \in {"breed_species_validator", "organism_validator_classes"}
        /\ services.breed # <<NotAsked>>) =>
           "$schema" \in DOMAIN OvSubmittedSchema(BreedSchema(organisms[1].organism.term))
    /\ pc = "first_pass" =>
           \A k \in 1..Len(validation_document) :
               services.breed[k] # NotAsked =>
                   "$schema" \in DOMAIN SubmittedSchema(BreedSchema(organisms[k].organism.term))
\* Two records of the batch bear the same identifier.
HasDuplicates == Cardinality(RecordNames(organisms, action)) < Len(organisms)
\* C26: after validate_batch on a batch in which two records bear the same
\* identifier (the structure listing child_of), a reference to that
\* identifier is judged against the later record, and every record, the
\* earlier one of the two included, has each of its references checked and
\* reported in its own tree: "no entity" for a target that resolves nowhere,
\* the species mismatch with the later record when the species differ.
C26_DuplicatesBothChecked ==
    (FullRun /\ Len(organisms) > 1 /\ HasDuplicates /\ structure) =>
        \A r \in References :
            LET target == organisms[r[1]].child_of[r[2]]
                child == organisms[r[1]].organism.text
                parent == organisms[LastIndex(organisms, action, target)].organism.text
            IN /\ (target # Restricted /\ ~Resolvable(target)) =>
                      NoEntityMsg(target) \in RefErrors(r[1], r[2])
               /\ target \in RecordNames(organisms, action) =>
                      (SpeciesMsg(child, parent) \in RefErrors(r[1], r[2])
                           <=> (child # "" /\ parent # "" /\ child # parent))
\* The records of an update as a new submission would hold them: the
\* accession is the sample name.
AsNew(orgs) == [k \in 1..Len(orgs) |-> [orgs[k] EXCEPT !.sample_name = orgs[k].biosample_id]]
\* The document validate_batch builds for these records in new mode, with the
\* answers the collaborators gave in this run.
NewModeDocument(orgs) ==
    LET trees == [k \in 1..Len(orgs) |->
                     ValidateSingleOrganism(orgs[k], k,
                         GetRecordStructure(structure, orgs[k]), services,
                         ontology_cache, {}, <<>>).tree]
    IN IF Len(orgs) > 1
       THEN ValidateRelationshipsBatch(orgs, trees, "new", biosamples_cache)
       ELSE trees
BadIds == {k \in 1..Len(organisms) : ~MatchesBiosamplePattern(organisms[k].biosample_id)}
\* C27: an update with a BioSample ID that does not match the accession
\* pattern makes no lookup, validates no record, asks no schema validator and
\* runs no relationship pass, and returns one entry that holds the ID-format
\* errors, one per such record, and nothing else; an update whose IDs all
\* match returns what new mode returns for the records named by accession.
C27_UpdateIdsCheckedFirst ==
    /\ (action = "update" /\ BadIds # {}) =>
           /\ calls = <<>>
           /\ ontology_cache = <<>> /\ biosamples_cache = <<>> /\ ov_cache = {}
           /\ services.elixir = <<>> /\ services.breed = <<>>
           /\ pc \in {"validate_batch", "validate_batch_async", "returned", "done"}
           /\ pc \in {"returned", "done"} =>
                  /\ Len(validation_document) = 1
                  /\ Len(validation_document[1][<<>>].errors) = Cardinality(BadIds)
                  /\ \A m \in Range(validation_document[1][<<>>].errors) :
                         \E k \in BadIds : m = InvalidIdMsg(organisms[k].biosample_id)
                  /\ \A a \in DOMAIN validation_document[1] :
                         a # <<>> => /\ validation_document[1][a].errors = <<>>
                                     /\ validation_document[1][a].warnings = <<>>
    /\ (action = "update" /\ FullRun) =>
           validation_document = NewModeDocument(AsNew(organisms))
\* An update of two records, one of them with a malformed ID, has returned.
C27_Witness ==
    /\ pc = "returned"
    /\ action = "update"
    /\ Len(organisms) = 2
    /\ Cardinality(BadIds) = 1
    /\ Len(validation_document) = 1
\* The organoids validate_with_pydantic found valid, by index from 1.
ValidOrganoids ==
    {k \in 1..Len(organisms) : OrganoidIsValid(organisms[k], returned.given[k])}
\* C28: after validate_with_pydantic a valid organoid whose sample name no
\* other organoid of the batch bears is reported under its own name, with
\* "Parent sample '<parent>' not found in current batch" exactly when its
\* parent is not restricted, not an accession and not the sample name of a
\* valid organoid of the batch.
C28_OrganoidsMappedByOwnName ==
    returned.of = "validate_with_pydantic" =>
        \A k \in ValidOrganoids :
            LET name == OrganoidSampleName(organisms[k], k - 1)
                parent_id == organisms[k].child_of[1]
                missing == /\ parent_id # Restricted
                           /\ ~StartsWithSAM(parent_id)
                           /\ \A h \in ValidOrganoids :
                                  OrganoidSampleName(organisms[h], h - 1) # parent_id
            IN (\A h \in 1..Len(organisms) :
                    h # k => OrganoidSampleName(organisms[h], h - 1) # name) =>
                   \E j \in 1..Len(returned.value) :
                       /\ returned.value[j].index = k - 1
                       /\ returned.value[j].sample_name = name
                       /\ returned.value[j].relationship_errors =
                              IF missing THEN <<ParentNotFoundMsg(parent_id)>> ELSE <<>>
\* C29: after validate_batch a reference of a record to the record's own
\* identifier carries "parent '<id>' is listing the child as its parent" and
\* neither a species-mismatch nor a no-entity error.
C29_SelfParentFlagged ==
    FullRun =>
        \A r \in References :
            LET target == organisms[r[1]].child_of[r[2]]
            IN target = NameOf(r[1]) =>
                   /\ CircularMsg(target) \in RefErrors(r[1], r[2])
                   /\ \A m \in RefErrors(r[1], r[2]) :
                          /\ m[1] # SpeciesMsg("", "")[1]
                          /\ m[1] # NoEntityMsg("")[1]
\* The tasks of the running _fetch_all_terms that are over, and those of
\* them that stored their docs.
TasksOver ==
    {t \in DOMAIN returned.value : returned.value[t] \in {"stored", "other status", "raised"}}
TasksStored == {t \in DOMAIN returned.value : returned.value[t] = "stored"}
\* C30: whatever the order in which the fetches of _fetch_all_terms are
\* answered and complete, the cache is at every moment the cache the call
\* started from plus the docs of each term whose fetch got status 200 and
\* completed, each under its own term ID; a fetch that fails or raises adds
\* and changes nothing; and gather returns with every task over.
C30_ConcurrentFetchesAddTheirOwn ==
    returned.of = "_fetch_all_terms" =>
        /\ DOMAIN ontology_cache = DOMAIN returned.given \cup TasksStored
        /\ \A t \in DOMAIN returned.given : ontology_cache[t] = returned.given[t]
        /\ \A t \in TasksStored : ontology_cache[t] = OlsDocs(t)
        /\ DOMAIN returned.value \cap DOMAIN returned.given = {}
        /\ pc \in {"_fetch_all_terms again", "answered"} =>
               TasksOver = DOMAIN returned.value
\* The second _fetch_all_terms on a validator has returned: it started from
\* a cache with an entry, one of its fetches failed, one raised, and one
\* stored its docs.
C30_Witness ==
    /\ returned.of = "_fetch_all_terms"
    /\ pc = "answered"
    /\ returned.given # <<>>
    /\ TasksStored # {}
    /\ \E t \in DOMAIN returned.value : returned.value[t] = "other status"
    /\ \E t \in DOMAIN returned.value : returned.value[t] = "raised"
====
